---- MODULE Spec2Model ----
(***************************************************************************)
(* A model of low-cortisol-html: the Tool Host (mcp_server), the Stream    *)
(* Gateway's run slot (ui/server.py) and the Loop Controller               *)
(* (orchestrator/loop_controller.py).  Each subsystem has its own          *)
(* specification over its own variables; the other variables stay idle.    *)
(***************************************************************************)
EXTENDS Integers, Sequences, FiniteSets, TLC

VARIABLES
    \* ---- Tool Host (one process per request; the file system persists)
    fs,          \* absolute path (sequence of names) -> [kind, content]
    hasLink,     \* the workspace holds a symlink  lnk -> /out  (made by the user)
    hostIn,      \* the request the last Tool Host process was given
    hostOut,     \* what that process did: stdout objects, envelope, exit code
    hostRun,     \* what its handler did: invoked, paths accessed, paths written
    hostCalls,   \* number of requests HostProcess has given so far (bounded)
    \* ---- Stream Gateway
    active_process,  \* STATE.active_process: 0 (None) or the number of a child
    stop_requested,  \* STATE.stop_requested
    child,           \* the orchestrator children, by number
    chat,            \* the /api/chat threads: position, response stream, locals
    stopper,         \* the /api/stop threads: position, process taken from the slot
    stopAccepted,    \* the runs for which /api/stop answered stopped=true
    \* ---- Loop Controller (LoopController.run)
    lpc,         \* where run() stands: "chat", "dispatch", "returned" or "raised"
    scenario,    \* which vocabulary the language model answers from
    run,         \* the locals of run() that live across iterations
    turn,        \* the locals of the current iteration
    last,        \* what the last pass of the dispatch loop did with its call
    filesRead,   \* the files whose content a read_file has returned so far
    runResult,   \* the mapping run() returned
    hist,        \* what has happened in the run so far, seen from outside run()
    transcript,  \* memory.messages: its first two roles, and the tool calls of the
                 \* assistant message of this iteration, as held and as appended
    \* ---- the file tools on the bytes of a file (create_file, then read_file)
    disk,        \* the request, the bytes of each file, and the two answers
    \* ---- ProjectMemory
    tree,        \* the files under the workspace root: path -> stat, or not there
    memory,      \* self.snapshots, and how the last refresh() ended
    \* ---- ToolPruner
    pruner,      \* the vectors file, the configured model, and the last load
    \* ---- the tool selection of one iteration
    selection,   \* what the reranker model wrote, the flags of run(), the lists made
    \* ---- replace_range on the characters of a file
    ranged       \* the file, the arguments of the call, the file after it, the answer

hostVars == <<fs, hasLink, hostIn, hostOut, hostRun, hostCalls>>
gwVars == <<active_process, stop_requested, child, chat, stopper, stopAccepted>>
loopVars == <<lpc, scenario, run, turn, last, filesRead, runResult, hist, transcript>>
diskVars == <<disk>>
memVars == <<tree, memory>>
prunerVars == <<pruner>>
selectVars == <<selection>>
rangeVars == <<ranged>>
unitVars == <<diskVars, memVars, prunerVars, selectVars, rangeVars>>
vars == <<hostVars, gwVars, loopVars, unitVars>>

(***************************************************************************)
(* Bounds of the model (not program constants).                            *)
(***************************************************************************)
MaxHostCalls == 2
MaxChats == 2
MaxStops == 1
MaxRelayed == 1
MaxChars == 2
MaxAskedBytes == 4
MaxChanges == 2
MaxLoads == 2
MaxRows == 2
MaxSourceChars == 3
MaxLine == 4

(***************************************************************************)
(* Program constants.                                                      *)
(***************************************************************************)
MAX_TOOL_ARGUMENT_LENGTH == 1024
MAX_TOOL_TIMEOUT_SECONDS == 120
MAX_READ_BYTES == 200000
MAX_FILE_BYTES == 1000000

(***************************************************************************)
(* Strings that are used as paths.  A path string is kept as what the code *)
(* looks at: its segments, whether it starts with "/", whether it carries  *)
(* surrounding whitespace, whether it holds a NUL, and its length in code  *)
(* points (len(str)) and in UTF-8 bytes.                                   *)
(***************************************************************************)
PStr(segs, abs, sp, nul, chars, bytes) ==
    [segs |-> segs, abs |-> abs, sp |-> sp, nul |-> nul, chars |-> chars, bytes |-> bytes]

Rel(segs) == PStr(segs, FALSE, FALSE, FALSE, 10, 10)
Abs(segs) == PStr(segs, TRUE, FALSE, FALSE, 10, 10)

EmptyStr == PStr(<<>>, FALSE, FALSE, FALSE, 0, 0)
BlankStr == PStr(<<>>, FALSE, TRUE, FALSE, 3, 3)
DotStr   == PStr(<<".">>, FALSE, FALSE, FALSE, 1, 1)

PathStrings ==
    { Rel(<<"index.html">>),
      Rel(<<"tests.js">>),
      Rel(<<"app">>),
      Rel(<<"app", "tests.js">>),
      DotStr,
      Rel(<<"..", "escape.txt">>),
      Rel(<<"app", "..", "index.html">>),
      Rel(<<"..", "ws", "index.html">>),
      Rel(<<"lnk", "x.txt">>),
      Abs(<<"etc", "passwd">>),
      Abs(<<"ws", "index.html">>),
      EmptyStr,
      BlankStr,
      PStr(<<"index.html">>, FALSE, TRUE, FALSE, 12, 12),           \* " index.html "
      PStr(<<"etc", "passwd">>, TRUE, TRUE, FALSE, 12, 12),          \* " /etc/passwd"
      PStr(<<"index.html">>, FALSE, FALSE, TRUE, 11, 11),           \* holds "\x00"
      PStr(<<"long.txt">>, FALSE, FALSE, FALSE, 1024, 1024),        \* 1024 ASCII characters
      PStr(<<"long.txt">>, FALSE, FALSE, FALSE, 1025, 1025),        \* 1025 ASCII characters
      PStr(<<"wide.txt">>, FALSE, FALSE, FALSE, 600, 1200) }        \* 600 two-byte characters

\* str.strip(): surrounding whitespace goes, and with it that many characters.
Strip(s) ==
    IF s.sp THEN [s EXCEPT !.sp = FALSE,
                           !.chars = IF s.segs = <<>> /\ ~s.abs THEN 0 ELSE s.chars - 2,
                           !.bytes = IF s.segs = <<>> /\ ~s.abs THEN 0 ELSE s.bytes - 2]
    ELSE s

\* Path(s).is_absolute(): the string starts with "/" (whitespace in front hides it).
IsAbsolute(s) == s.abs /\ ~s.sp

\* The segments pathlib sees.  An unstripped string keeps its whitespace inside
\* the first name: " /etc/passwd" is the relative path <<" ", "etc", "passwd">>.
Parts(s) ==
    IF ~s.sp THEN s.segs
    ELSE IF s.abs \/ s.segs = <<>> THEN <<"_spaced">> \o s.segs
    ELSE <<"_spaced">> \o Tail(s.segs)

(***************************************************************************)
(* sandbox.py                                                              *)
(***************************************************************************)
WorkspaceRoot == <<"ws">>
LinkName == "lnk"
LinkTarget == <<"out">>

\* validate_relative_path: "ok" or the message of the ValueError it raises.
\* isStr is isinstance(relative_path, str).
validate_relative_path_bytes(isStr, s) ==
    IF ~isStr \/ Strip(s).chars = 0 THEN "Path must be a non-empty string"
    ELSE IF s.bytes > MAX_TOOL_ARGUMENT_LENGTH THEN "Path argument too long"
    ELSE IF s.nul THEN "Path contains null byte"
    ELSE IF IsAbsolute(s) THEN "Absolute paths are not allowed"
    ELSE "ok"

validate_relative_path_noabs(isStr, s) ==
    IF ~isStr \/ Strip(s).chars = 0 THEN "Path must be a non-empty string"
    ELSE IF s.chars > MAX_TOOL_ARGUMENT_LENGTH THEN "Path argument too long"
    ELSE IF s.nul THEN "Path contains null byte"
    ELSE "ok"

validate_relative_path(isStr, s) ==
    IF ~isStr \/ Strip(s).chars = 0 THEN "Path must be a non-empty string"
    ELSE IF s.chars > MAX_TOOL_ARGUMENT_LENGTH THEN "Path argument too long"
    ELSE IF s.nul THEN "Path contains null byte"
    ELSE IF IsAbsolute(s) THEN "Absolute paths are not allowed"
    ELSE "ok"

\* Path.resolve() of (base / parts): "." is dropped, ".." pops (the root is its
\* own parent), a symlink is replaced by its target.
RECURSIVE ResolveFrom(_, _, _)
ResolveFrom(base, parts, link) ==
    IF parts = <<>> THEN base
    ELSE LET h == Head(parts)
             t == Tail(parts)
         IN  IF h = "." THEN ResolveFrom(base, t, link)
             ELSE IF h = ".." THEN
                 ResolveFrom(IF base = <<>> THEN <<>> ELSE SubSeq(base, 1, Len(base) - 1), t, link)
             ELSE IF link /\ base = WorkspaceRoot /\ h = LinkName THEN
                 ResolveFrom(LinkTarget, t, link)
             ELSE ResolveFrom(Append(base, h), t, link)

\* (workspace_root / relative_path).resolve(): an absolute right operand replaces
\* the left one.
Candidate(s, link) ==
    IF IsAbsolute(s) THEN ResolveFrom(<<>>, Parts(s), link)
    ELSE ResolveFrom(WorkspaceRoot, Parts(s), link)

\* candidate.relative_to(workspace_root) succeeds.
IsPrefix(a, b) == Len(a) <= Len(b) /\ SubSeq(b, 1, Len(a)) = a
InWorkspace(p) == IsPrefix(WorkspaceRoot, p)

\* resolve_path_in_workspace: [err, path]; err is "ok" or the ValueError message.
resolve_path_in_workspace_nocheck(s, link) ==
    LET Checked(v, candidate) ==
            IF v # "ok" THEN [err |-> v, path |-> <<>>]
            ELSE [err |-> "ok", path |-> candidate]
    IN  Checked(validate_relative_path(TRUE, s), Candidate(s, link))

resolve_path_in_workspace(s, link) ==
    LET Checked(v, candidate) ==
            IF v # "ok" THEN [err |-> v, path |-> <<>>]
            ELSE IF ~InWorkspace(candidate)
                 THEN [err |-> "Path escapes workspace sandbox", path |-> <<>>]
            ELSE [err |-> "ok", path |-> candidate]
    IN  Checked(validate_relative_path(TRUE, s), Candidate(s, link))

validate_timeout_seconds(n) == n >= 1 /\ n <= MAX_TOOL_TIMEOUT_SECONDS

(***************************************************************************)
(* JSON values of a request's arguments.  t is the JSON type; a string     *)
(* carries the path it spells (s) or the text it holds (c); an array       *)
(* carries the type of its items (it).                                     *)
(***************************************************************************)
Val(t, s, c, n, b, it) == [t |-> t, s |-> s, c |-> c, n |-> n, b |-> b, it |-> it]
VPath(s) == Val("string", s, "-", 0, FALSE, "-")
VText(c) == Val("string", EmptyStr, c, 0, FALSE, "-")
VInt(n)  == Val("integer", EmptyStr, "-", n, FALSE, "-")
VBool(b) == Val("boolean", EmptyStr, "-", 0, b, "-")
VArr(it) == Val("array", EmptyStr, "-", 0, FALSE, it)
VNull    == Val("null", EmptyStr, "-", 0, FALSE, "-")
VFloat   == Val("float", EmptyStr, "-", 0, FALSE, "-")

\* File contents: an index.html that references styles.css and app.js, a test
\* file with assertions, a test file with assertions that also writes a file
\* outside the workspace when node runs it, and a text of more than
\* MAX_FILE_BYTES bytes.
Contents == {"html", "tests", "evil", "big"}
Oversize(c) == c = "big"
HasAssertions(c) == c \in {"tests", "evil"}
HtmlRefsOk(c) == c = "html"
WritesOutsideWhenRun(c) == c = "evil"

\* arguments.get(key, default) after str()/int()/bool(), as the handlers do.
Has(args, k) == k \in DOMAIN args
StrArg(args, k, default) == IF Has(args, k) /\ args[k].t = "string" THEN args[k].s ELSE default
TextArg(args, k, default) == IF Has(args, k) /\ args[k].t = "string" THEN args[k].c ELSE default
IntArg(args, k, default) == IF Has(args, k) /\ args[k].t = "integer" THEN args[k].n ELSE default
BoolArg(args, k, default) == IF Has(args, k) /\ args[k].t = "boolean" THEN args[k].b ELSE default

(***************************************************************************)
(* tool_registry.py and the schemas of server.py's _build_registry         *)
(***************************************************************************)
TStr  == [type |-> "string", items |-> "-"]
TInt  == [type |-> "integer", items |-> "-"]
TBool == [type |-> "boolean", items |-> "-"]
TArrS == [type |-> "array", items |-> "string"]

Schema(props, required) == [props |-> props, required |-> required, additional |-> FALSE]

RegisteredTools ==
    {"create_file", "read_file", "list_directory", "scaffold_web_app",
     "validate_web_app", "run_unit_tests", "plan_web_build", "dummy_sandbox_echo"}

input_schema(tool) ==
    CASE tool = "create_file" ->
            Schema([relative_path |-> TStr, content |-> TStr, overwrite |-> TBool],
                   {"relative_path", "content"})
      [] tool = "read_file" ->
            Schema([relative_path |-> TStr, max_bytes |-> TInt], {"relative_path"})
      [] tool = "list_directory" ->
            Schema([relative_path |-> TStr, include_hidden |-> TBool], {})
      [] tool = "scaffold_web_app" ->
            Schema([app_dir |-> TStr, app_title |-> TStr], {"app_dir"})
      [] tool = "validate_web_app" ->
            Schema([app_dir |-> TStr], {"app_dir"})
      [] tool = "run_unit_tests" ->
            Schema([test_file |-> TStr, timeout_seconds |-> TInt], {"test_file"})
      [] tool = "plan_web_build" ->
            Schema([summary |-> TStr, prompt_features |-> TArrS], {"summary"})
      [] tool = "dummy_sandbox_echo" ->
            Schema([relative_path |-> TStr], {})

\* _validate_input_schema on one property: the value has the schema's type.
\* bool is an int in Python; the code excludes it by hand.
TypeMatches_boolAsInt(ps, v) ==
    CASE ps.type = "string"  -> v.t = "string"
      [] ps.type = "boolean" -> v.t = "boolean"
      [] ps.type = "integer" -> v.t \in {"integer", "boolean"}
      [] ps.type = "array"   -> v.t = "array" /\ (ps.items = "string" => v.it \in {"string", "none"})
      [] OTHER -> TRUE

TypeMatches(ps, v) ==
    CASE ps.type = "string"  -> v.t = "string"
      [] ps.type = "boolean" -> v.t = "boolean"
      [] ps.type = "integer" -> v.t = "integer"
      [] ps.type = "array"   -> v.t = "array" /\ (ps.items = "string" => v.it \in {"string", "none"})
      [] OTHER -> TRUE

\* _validate_input_schema on the arguments object: "ok" or what the ValueError names.
validate_input_schema_lax(schema, args) ==
    IF \E k \in schema.required : ~Has(args, k) THEN "Missing required field"
    ELSE IF \E k \in DOMAIN args \cap DOMAIN schema.props : ~TypeMatches(schema.props[k], args[k])
        THEN "type mismatch"
    ELSE "ok"

validate_input_schema(schema, args) ==
    IF \E k \in schema.required : ~Has(args, k) THEN "Missing required field"
    ELSE IF schema.additional = FALSE /\ \E k \in DOMAIN args : k \notin DOMAIN schema.props
        THEN "Unexpected field"
    ELSE IF \E k \in DOMAIN args \cap DOMAIN schema.props : ~TypeMatches(schema.props[k], args[k])
        THEN "type mismatch"
    ELSE "ok"

(***************************************************************************)
(* The file system the handlers act on: a function from absolute paths to  *)
(* nodes.  A path not in its domain does not exist.                        *)
(***************************************************************************)
Dir == [kind |-> "dir", content |-> "-"]
File(c) == [kind |-> "file", content |-> c]

Exists(f, p) == p \in DOMAIN f
IsDir(f, p) == Exists(f, p) /\ f[p].kind = "dir"
IsFile(f, p) == Exists(f, p) /\ f[p].kind = "file"
ProperPrefixes(p) == {SubSeq(p, 1, n) : n \in 0..(Len(p) - 1)}
AncestorIsFile(f, p) == \E a \in ProperPrefixes(p) : IsFile(f, a)

\* Path.mkdir(parents=True, exist_ok=True) on p (no ancestor of p is a file).
MkDirs(f, p) ==
    LET new == {a \in ProperPrefixes(p) \cup {p} : ~Exists(f, a)}
    IN  [a \in new |-> Dir] @@ f

\* target.parent.mkdir(parents=True, exist_ok=True); target.write_text(content)
WriteFile(f, p, c) ==
    (p :> File(c)) @@ MkDirs(f, SubSeq(p, 1, Len(p) - 1))

\* What a handler did.  raised: it threw (msg is the error message); ok: the
\* "ok" of the mapping it returned; nfs: the file system afterwards; acc: the
\* paths it resolved and looked at; wr: the paths it created or modified.
Raise(f, msg) == [raised |-> TRUE, msg |-> msg, ok |-> FALSE, nfs |-> f, acc |-> {}, wr |-> {}]
Return(f, ok, acc, wr) == [raised |-> FALSE, msg |-> "", ok |-> ok, nfs |-> f, acc |-> acc, wr |-> wr]

(***************************************************************************)
(* tools/file_tools.py                                                     *)
(***************************************************************************)
\* create_file_tool writing the text before it tests for an existing file
create_file_tool_replacing(args, f, link) ==
    LET relative_path == Strip(StrArg(args, "relative_path", EmptyStr))
        content == TextArg(args, "content", "")
        overwrite == BoolArg(args, "overwrite", FALSE)
        Body(v, r) ==
            LET target == r.path
            IN  IF v # "ok" THEN Raise(f, v)
                ELSE IF Oversize(content) THEN Raise(f, "File content exceeds max allowed size")
                ELSE IF r.err # "ok" THEN Raise(f, r.err)
                ELSE IF IsDir(f, target) THEN Raise(f, "Target path is a directory")
                ELSE IF AncestorIsFile(f, target) THEN Raise(f, "OSError")
                ELSE IF Exists(f, target) /\ ~overwrite
                     THEN Raise(WriteFile(f, target, content), "File already exists")
                ELSE Return(WriteFile(f, target, content), TRUE, {target}, {target})
    IN  Body(validate_relative_path(TRUE, relative_path), resolve_path_in_workspace(relative_path, link))

create_file_tool(args, f, link) ==
    LET relative_path == Strip(StrArg(args, "relative_path", EmptyStr))
        content == TextArg(args, "content", "")
        overwrite == BoolArg(args, "overwrite", FALSE)
        Body(v, r) ==
            LET target == r.path
            IN  IF v # "ok" THEN Raise(f, v)
                ELSE IF Oversize(content) THEN Raise(f, "File content exceeds max allowed size")
                ELSE IF r.err # "ok" THEN Raise(f, r.err)
                ELSE IF IsDir(f, target) THEN Raise(f, "Target path is a directory")
                ELSE IF Exists(f, target) /\ ~overwrite THEN Raise(f, "File already exists")
                ELSE IF AncestorIsFile(f, target) THEN Raise(f, "OSError")
                ELSE Return(WriteFile(f, target, content), TRUE, {target}, {target})
    IN  Body(validate_relative_path(TRUE, relative_path), resolve_path_in_workspace(relative_path, link))

read_file_tool(args, f, link) ==
    LET relative_path == Strip(StrArg(args, "relative_path", EmptyStr))
        max_bytes == IntArg(args, "max_bytes", 65536)
        Body(v, r) ==
            LET target == r.path
            IN  IF v # "ok" THEN Raise(f, v)
                ELSE IF max_bytes < 1 \/ max_bytes > MAX_READ_BYTES
                    THEN Raise(f, "max_bytes must be between 1 and 200000")
                ELSE IF r.err # "ok" THEN Raise(f, r.err)
                ELSE IF ~IsFile(f, target) THEN Raise(f, "Requested file does not exist")
                ELSE Return(f, TRUE, {target}, {})
    IN  Body(validate_relative_path(TRUE, relative_path), resolve_path_in_workspace(relative_path, link))

list_directory_tool(args, f, link) ==
    LET stripped == Strip(StrArg(args, "relative_path", DotStr))
        relative_path == IF stripped.chars = 0 THEN DotStr ELSE stripped
        Body(v, r) ==
            LET target == r.path
            IN  IF v # "ok" THEN Raise(f, v)
                ELSE IF r.err # "ok" THEN Raise(f, r.err)
                ELSE IF ~IsDir(f, target) THEN Raise(f, "Requested directory does not exist")
                ELSE Return(f, TRUE, {target}, {})
    IN  Body(validate_relative_path(TRUE, relative_path), resolve_path_in_workspace(relative_path, link))

(***************************************************************************)
(* tools/web_tools.py                                                      *)
(***************************************************************************)
ScaffoldFiles == <<"index.html", "styles.css", "app.js", "tests.js">>
ScaffoldContent(name) == IF name = "index.html" THEN "html" ELSE IF name = "tests.js" THEN "tests" ELSE "plain"

\* the four "if not x.exists(): x.write_text(...)" of scaffold_web_app_tool
RECURSIVE ScaffoldWrite(_, _, _)
ScaffoldWrite(f, dir, i) ==
    IF i > Len(ScaffoldFiles) THEN f
    ELSE LET p == Append(dir, ScaffoldFiles[i])
         IN  ScaffoldWrite(IF Exists(f, p) THEN f ELSE (p :> File(ScaffoldContent(ScaffoldFiles[i]))) @@ f,
                           dir, i + 1)

scaffold_web_app_tool(args, f, link) ==
    LET app_dir == Strip(StrArg(args, "app_dir", Rel(<<"concept_app">>)))
        Body(v, r) ==
            LET target_dir == r.path
                children == {Append(target_dir, ScaffoldFiles[i]) : i \in 1..Len(ScaffoldFiles)}
            IN  IF v # "ok" THEN Raise(f, v)
                ELSE IF r.err # "ok" THEN Raise(f, r.err)
                ELSE IF IsFile(f, target_dir) \/ AncestorIsFile(f, target_dir) THEN Raise(f, "OSError")
                ELSE Return(ScaffoldWrite(MkDirs(f, target_dir), target_dir, 1), TRUE,
                            {target_dir} \cup children,
                            {p \in children : ~Exists(f, p)})
    IN  Body(validate_relative_path(TRUE, app_dir), resolve_path_in_workspace(app_dir, link))

validate_web_app_tool(args, f, link) ==
    LET app_dir == Strip(StrArg(args, "app_dir", Rel(<<"concept_app">>)))
        Body(v, r) ==
            LET target_dir == r.path
                required == {"index.html", "styles.css", "app.js"}
                missing == {n \in required : ~IsFile(f, Append(target_dir, n))}
                issues == missing = {} /\ ~HtmlRefsOk(f[Append(target_dir, "index.html")].content)
            IN  IF v # "ok" THEN Raise(f, v)
                ELSE IF r.err # "ok" THEN Raise(f, r.err)
                ELSE IF ~IsDir(f, target_dir) THEN Raise(f, "app_dir does not exist")
                ELSE Return(f, missing = {} /\ ~issues,
                            {target_dir} \cup {Append(target_dir, n) : n \in required}, {})
    IN  Body(validate_relative_path(TRUE, app_dir), resolve_path_in_workspace(app_dir, link))

\* re.search(r"(test|spec)s?\.js$", name.lower()) over the names of the model
IsTestFileName(name) == name \in {"tests.js", "test.js", "specs.js", "spec.js"}

\* What the node child can leave behind: a script writes where it likes.
OutsideFile == <<"out", "pwned.txt">>

\* run_unit_tests_tool.  node says whether shutil.which("node") finds a runner;
\* outcome is how the child ends: "pass" (exit 0), "fail" (exit # 0) or
\* "timeout" (subprocess.TimeoutExpired).
run_unit_tests_tool(args, f, link, node, outcome) ==
    LET test_file == Strip(StrArg(args, "test_file", Rel(<<"concept_app", "tests.js">>)))
        timeout_seconds == IntArg(args, "timeout_seconds", 30)
        Body(v, r) ==
            LET test_path == r.path
                source == f[test_path].content
                effect == IF WritesOutsideWhenRun(source) THEN {OutsideFile} ELSE {}
                after == IF WritesOutsideWhenRun(source) THEN (OutsideFile :> File("plain")) @@ f ELSE f
            IN  IF v # "ok" THEN Raise(f, v)
                ELSE IF r.err # "ok" THEN Raise(f, r.err)
                ELSE IF ~IsFile(f, test_path) THEN Raise(f, "test_file does not exist")
                ELSE IF ~IsTestFileName(test_path[Len(test_path)])
                    THEN Raise(f, "test_file must be a real JS test file")
                ELSE IF ~HasAssertions(source) THEN Raise(f, "test_file must contain test assertions")
                ELSE IF ~node THEN Return(f, FALSE, {test_path}, {})
                ELSE IF ~validate_timeout_seconds(timeout_seconds) THEN Raise(f, "Timeout must be between 1 and 120 seconds")
                ELSE IF outcome = "timeout"
                    THEN [Raise(after, "TimeoutExpired") EXCEPT !.acc = {test_path}, !.wr = effect]
                ELSE Return(after, outcome = "pass", {test_path}, effect)
    IN  Body(validate_relative_path(TRUE, test_file), resolve_path_in_workspace(test_file, link))

plan_web_build_tool(args, f, link) ==
    IF Has(args, "prompt_features") /\ args["prompt_features"].t # "array"
    THEN Raise(f, "prompt_features must be an array")
    ELSE Return(f, TRUE, {}, {})

(***************************************************************************)
(* tools/dummy_tools.py                                                    *)
(***************************************************************************)
sandbox_echo_path(args, f, link) ==
    LET relative_path == StrArg(args, "relative_path", DotStr)
        Body(r) ==
            IF r.err # "ok" THEN Raise(f, r.err)
            ELSE Return(f, TRUE, {r.path}, {})
    IN  Body(resolve_path_in_workspace(relative_path, link))

(***************************************************************************)
(* server.py: with_logging, ToolRegistry.call_tool, _handle_request, main  *)
(***************************************************************************)
LogFile == <<"ws", ".low-cortisol-html-logs", "tool_actions.log">>

\* the handler registered for a tool (the lambda given to with_logging)
Handler(tool, args, f, link, node, outcome) ==
    CASE tool = "create_file"        -> create_file_tool(args, f, link)
      [] tool = "read_file"          -> read_file_tool(args, f, link)
      [] tool = "list_directory"     -> list_directory_tool(args, f, link)
      [] tool = "scaffold_web_app"   -> scaffold_web_app_tool(args, f, link)
      [] tool = "validate_web_app"   -> validate_web_app_tool(args, f, link)
      [] tool = "run_unit_tests"     -> run_unit_tests_tool(args, f, link, node, outcome)
      [] tool = "plan_web_build"     -> plan_web_build_tool(args, f, link)
      [] tool = "dummy_sandbox_echo" -> sandbox_echo_path(args, f, link)

\* with_logging: run the handler, then append one line to the tool log, whether
\* the handler returned or raised (the exception is re-raised).
with_logging(tool, args, f, link, node, outcome) ==
    LET Logged(h) == [h EXCEPT !.nfs = WriteFile(h.nfs, LogFile, "plain"), !.wr = h.wr \cup {LogFile}]
    IN  Logged(Handler(tool, args, f, link, node, outcome))

\* What one Tool Host process does.  out: what it wrote and how it exited;
\* run: what the handler did; nfs: the file system afterwards.
NoRun == [invoked |-> FALSE, ok |-> FALSE, acc |-> {}, wr |-> {}]
Envelope(ok, type, msg, exit) ==
    [printed |-> 1, ok |-> ok, errType |-> type, errMsg |-> msg, exit |-> exit, escaped |-> FALSE]
Failure(f, type, msg) == [out |-> Envelope(FALSE, type, msg, 1), run |-> NoRun, nfs |-> f]

\* ToolRegistry.call_tool, inside _handle_request's "call_tool" branch
call_tool_unvalidated(req, f, link, node, outcome) ==
    IF req.tool \notin RegisteredTools THEN Failure(f, "ValueError", "Unknown tool")
    ELSE LET Answer(h) ==
                 [out |-> IF h.raised
                          THEN Envelope(FALSE, IF h.msg \in {"OSError", "TimeoutExpired"} THEN h.msg ELSE "ValueError", h.msg, 1)
                          ELSE Envelope(TRUE, "", "", 0),
                  run |-> [invoked |-> TRUE, ok |-> h.ok, acc |-> h.acc, wr |-> h.wr],
                  nfs |-> h.nfs]
         IN  Answer(with_logging(req.tool, req.args, f, link, node, outcome))

call_tool(req, f, link, node, outcome) ==
    LET Validated(v) ==
            IF v # "ok" THEN Failure(f, "ValueError", v)
            ELSE call_tool_unvalidated(req, f, link, node, outcome)
    IN  IF req.tool \notin RegisteredTools THEN Failure(f, "ValueError", "Unknown tool")
        ELSE Validated(validate_input_schema(input_schema(req.tool), req.args))

handle_request(req, f, link, node, outcome) ==
    IF req.action = "list_tools" THEN [out |-> Envelope(TRUE, "", "", 0), run |-> NoRun, nfs |-> f]
    ELSE IF req.action = "call_tool" THEN
        IF req.tool = "" THEN Failure(f, "ValueError", "'tool' must be a non-empty string for call_tool")
        ELSE IF ~req.argsIsObject THEN Failure(f, "ValueError", "'arguments' must be an object")
        ELSE call_tool(req, f, link, node, outcome)
    ELSE Failure(f, "ValueError", "Unsupported action")

\* main.  rootOk: WORKSPACE_ROOT names an existing directory.  strict: the
\* interpreter decodes stdin strictly (it does unless the locale is C/POSIX),
\* so sys.stdin.read() raises UnicodeDecodeError on bytes that are not UTF-8;
\* that read is outside main's try blocks.
hostMain(req, f, link, rootOk, strict, node, outcome) ==
    IF ~rootOk THEN Failure(f, "ValueError", "WORKSPACE_ROOT must exist and be a directory")
    ELSE IF req.raw = "undecodable" /\ strict THEN
        [out |-> [printed |-> 0, ok |-> FALSE, errType |-> "UnicodeDecodeError", errMsg |-> "",
                  exit |-> 1, escaped |-> TRUE],
         run |-> NoRun, nfs |-> f]
    ELSE IF req.raw = "empty" THEN Failure(f, "ValueError", "No JSON request provided on stdin")
    ELSE IF req.raw \in {"not_json", "undecodable"} THEN Failure(f, "JSONDecodeError", "Expecting value")
    ELSE IF req.raw = "not_object" THEN Failure(f, "ValueError", "Request must be a JSON object")
    ELSE handle_request(req, f, link, node, outcome)

(***************************************************************************)
(* The requests the model gives the Tool Host.                             *)
(***************************************************************************)
Request(raw, action, tool, args, isObj) ==
    [raw |-> raw, action |-> action, tool |-> tool, args |-> args, argsIsObject |-> isObj]

NoArgs == [k \in {} |-> VNull]
NoRequest == Request("none", "", "", NoArgs, TRUE)

\* Values tried for a key when the schema is explored: one of the right type,
\* the others of a wrong one.
TypeSamples(k) ==
    CASE k \in {"relative_path", "app_dir", "test_file"} ->
            {VPath(Rel(<<"index.html">>)), VInt(10), VNull}
      [] k \in {"content", "summary", "app_title"} -> {VText("tests"), VInt(10)}
      [] k \in {"overwrite", "include_hidden"} -> {VBool(TRUE), VText("tests")}
      [] k \in {"max_bytes", "timeout_seconds"} -> {VInt(10), VText("tests"), VBool(TRUE), VFloat}
      [] k = "prompt_features" -> {VArr("string"), VArr("integer"), VArr("none"), VText("tests")}
      [] OTHER -> {VText("tests")}

\* every mapping from a subset of ks to the values tried for its keys
RECURSIVE ArgsOver(_)
ArgsOver(ks) ==
    IF ks = {} THEN {NoArgs}
    ELSE LET k == CHOOSE x \in ks : TRUE
             rest == ArgsOver(ks \ {k})
         IN  rest \cup {(k :> v) @@ a : a \in rest, v \in TypeSamples(k)}

SchemaArgs(tool) == ArgsOver(DOMAIN input_schema(tool).props \cup {"unexpected"})

\* Values tried for a key when the paths are explored: every path string, the
\* other keys well typed.
PathKey(tool) ==
    CASE tool \in {"create_file", "read_file", "list_directory", "dummy_sandbox_echo"} -> "relative_path"
      [] tool \in {"scaffold_web_app", "validate_web_app"} -> "app_dir"
      [] tool = "run_unit_tests" -> "test_file"
      [] OTHER -> "-"

PathTools == {tool \in RegisteredTools : PathKey(tool) # "-"}

PathArgs(tool) ==
    LET pk == PathKey(tool)
        base == {[k \in {pk} |-> VPath(s)] : s \in PathStrings}
        with(as, k, vs) == {(k :> v) @@ a : a \in as, v \in vs}
    IN  CASE tool = "create_file" ->
                with(with(base, "content", {VText(c) : c \in Contents}), "overwrite", {VBool(TRUE)})
                \cup with(base, "content", {VText("html")})
          [] tool = "read_file" -> base \cup with(base, "max_bytes", {VInt(0)})
          [] tool = "run_unit_tests" -> base \cup with(base, "timeout_seconds", {VInt(121)})
          [] OTHER -> base

Requests ==
    {Request(raw, "", "", NoArgs, TRUE) : raw \in {"empty", "undecodable", "not_json", "not_object"}}
    \cup {Request("object", a, "", NoArgs, TRUE) : a \in {"list_tools", "call_tool", "run"}}
    \cup {Request("object", "call_tool", t, NoArgs, b) : t \in {"append_to_file", "read_file"}, b \in BOOLEAN}
    \cup UNION {{Request("object", "call_tool", t, a, TRUE) : a \in SchemaArgs(t)} : t \in RegisteredTools}
    \cup UNION {{Request("object", "call_tool", t, a, TRUE) : a \in PathArgs(t)} : t \in PathTools}

(***************************************************************************)
(* Stream Gateway (ui/server.py).  One thread per HTTP request             *)
(* (ThreadingHTTPServer); STATE.active_process and STATE.stop_requested    *)
(* are shared and touched only under STATE.lock, so each "with STATE.lock" *)
(* block is one step.  A /api/chat thread and the child it spawns carry    *)
(* the same number.                                                        *)
(***************************************************************************)
ChatIds == 1..MaxChats
StopIds == 1..MaxStops
NoProcess == 0

RunStatuses == {"completed", "stopped_no_progress", "stopped_by_agent"}

\* The orchestrator child: "none" before Popen, "running", "printed" once
\* main_orchestrator has written its result JSON to stdout and is about to
\* exit, "exited".  out is what its stdout holds: "" (nothing), "garbage"
\* (not JSON) or "result" (the result object, whose status is st).
NoChild == [state |-> "none", out |-> "", st |-> "", code |-> 0]
Alive(c) == child[c].state \in {"running", "printed"}

\* process.poll() is None, for the process in the slot
SlotBusy == active_process # NoProcess /\ Alive(active_process)

\* A chat response.  started: the NDJSON headers went out; bad: something
\* that is not a JSON-object line was written into the stream; last: the
\* type of the last event; stopped: a `stopped` event was written.  nth
\* (history, not in the code): the request was the nth one admitted.
NoStream == [started |-> FALSE, bad |-> FALSE, last |-> "", stopped |-> FALSE]
NewChat ==
    [pc |-> "waiting", http |-> 0, stream |-> NoStream, stdout_raw |-> "", st |-> "",
     stopped_by_user |-> FALSE, relayed |-> 0, nth |-> 0]

\* ndjson_event
ndjson_event(s, type) == [s EXCEPT !.last = type, !.stopped = @ \/ type = "stopped"]

\* json_response.  On a response whose NDJSON headers are out it writes a
\* second status line and header block into the body, then one JSON object
\* that is not an event.
json_response(s) ==
    IF s.started THEN [s EXCEPT !.bad = TRUE, !.last = "http_error_body"] ELSE s

GatewayInit ==
    /\ active_process = NoProcess
    /\ stop_requested = FALSE
    /\ child = [c \in ChatIds |-> NoChild]
    /\ chat = [c \in ChatIds |-> NewChat]
    /\ stopper = [s \in StopIds |-> [pc |-> "waiting", process |-> NoProcess, stopped |-> FALSE]]
    /\ stopAccepted = {}

\* /api/chat up to the busy check: an empty message or a run in flight raises
\* ValueError, answered by the handler's except clause with a 400.
ChatAdmit(c) ==
    /\ chat[c].pc = "waiting"
    /\ \E messageOk \in BOOLEAN :
          chat' = [chat EXCEPT ![c].pc = IF messageOk /\ ~SlotBusy THEN "admitted" ELSE "answered",
                               ![c].http = IF messageOk /\ ~SlotBusy THEN 0 ELSE 400,
                               ![c].nth = IF messageOk /\ ~SlotBusy
                                          THEN 1 + Cardinality({d \in ChatIds : chat[d].nth > 0})
                                          ELSE 0]
    /\ UNCHANGED <<active_process, stop_requested, child, stopper, stopAccepted, hostVars, loopVars, unitVars>>

\* send_response(200) + headers, then the first status event
ChatSendHeaders(c) ==
    /\ chat[c].pc = "admitted"
    /\ chat' = [chat EXCEPT ![c].pc = "spawning", ![c].http = 200,
                            ![c].stream = ndjson_event([NoStream EXCEPT !.started = TRUE], "status")]
    /\ UNCHANGED <<active_process, stop_requested, child, stopper, stopAccepted, hostVars, loopVars, unitVars>>

\* subprocess.Popen(...) returns a running child
ChatSpawn(c) ==
    /\ chat[c].pc = "spawning"
    /\ child' = [child EXCEPT ![c].state = "running"]
    /\ chat' = [chat EXCEPT ![c].pc = "spawned"]
    /\ UNCHANGED <<active_process, stop_requested, stopper, stopAccepted, hostVars, loopVars, unitVars>>

\* subprocess.Popen(...) raises OSError: the except clause answers with
\* json_response on the stream that is already open.
ChatSpawnFails(c) ==
    /\ chat[c].pc = "spawning"
    /\ chat' = [chat EXCEPT ![c].pc = "answered", ![c].stream = json_response(@)]
    /\ UNCHANGED <<active_process, stop_requested, child, stopper, stopAccepted, hostVars, loopVars, unitVars>>

\* with STATE.lock: active_process = process; stop_requested = False
ChatSetSlot(c) ==
    /\ chat[c].pc = "spawned"
    /\ active_process' = c
    /\ stop_requested' = FALSE
    /\ chat' = [chat EXCEPT ![c].pc = "relaying"]
    /\ UNCHANGED <<child, stopper, stopAccepted, hostVars, loopVars, unitVars>>

\* one line of the child's stderr relayed as an event
ChatRelay(c) ==
    /\ chat[c].pc = "relaying"
    /\ chat[c].relayed < MaxRelayed
    /\ child[c].state = "running"
    /\ \E type \in {"reasoning", "action"} :
          chat' = [chat EXCEPT ![c].stream = ndjson_event(@, type), ![c].relayed = @ + 1]
    /\ UNCHANGED <<active_process, stop_requested, child, stopper, stopAccepted, hostVars, loopVars, unitVars>>

\* stderr at EOF and process.poll() is not None: the relay loop ends, stdout
\* is read whole and process.wait(timeout=5) returns at once.
ChatReadResult(c) ==
    /\ chat[c].pc = "relaying"
    /\ child[c].state = "exited"
    /\ chat' = [chat EXCEPT ![c].pc = "read", ![c].stdout_raw = child[c].out, ![c].st = child[c].st]
    /\ UNCHANGED <<active_process, stop_requested, child, stopper, stopAccepted, hostVars, loopVars, unitVars>>

\* with STATE.lock: stopped_by_user = stop_requested; active_process = None;
\* stop_requested = False
ChatClearSlot(c) ==
    /\ chat[c].pc = "read"
    /\ chat' = [chat EXCEPT ![c].pc = "parsing", ![c].stopped_by_user = stop_requested]
    /\ active_process' = NoProcess
    /\ stop_requested' = FALSE
    /\ UNCHANGED <<child, stopper, stopAccepted, hostVars, loopVars, unitVars>>

\* json.loads(stdout_raw) gave nothing: the stopped events or the error event, then done
ChatNoResult(c) ==
    /\ chat[c].pc = "parsing"
    /\ chat[c].stdout_raw # "result"
    /\ chat' = [chat EXCEPT
          ![c].pc = "answered",
          ![c].stream =
              IF chat[c].stopped_by_user
              THEN ndjson_event(ndjson_event(ndjson_event(@, "stopped"), "status"), "done")
              ELSE ndjson_event(ndjson_event(@, "error"), "done")]
    /\ UNCHANGED <<active_process, stop_requested, child, stopper, stopAccepted, hostVars, loopVars, unitVars>>

\* the result parsed: the tool trace is replayed, a run that stopped itself
\* gets a `stopped` event, the summary is streamed in chunks
ChatReplayResult(c) ==
    /\ chat[c].pc = "parsing"
    /\ chat[c].stdout_raw = "result"
    /\ chat' = [chat EXCEPT
          ![c].pc = "summarised",
          ![c].stream =
              IF chat[c].st \in {"stopped_no_progress", "stopped_by_agent"}
              THEN ndjson_event(ndjson_event(ndjson_event(@, "stopped"), "status"), "chat_chunk")
              ELSE ndjson_event(@, "chat_chunk")]
    /\ UNCHANGED <<active_process, stop_requested, child, stopper, stopAccepted, hostVars, loopVars, unitVars>>

\* with STATE.lock: chat_history.append(...); active_process = None;
\* stop_requested = False -- then chat_final, status, done
ChatFinish(c) ==
    /\ chat[c].pc = "summarised"
    /\ active_process' = NoProcess
    /\ stop_requested' = FALSE
    /\ chat' = [chat EXCEPT
          ![c].pc = "answered",
          ![c].stream = ndjson_event(ndjson_event(ndjson_event(@, "chat_final"), "status"), "done")]
    /\ UNCHANGED <<child, stopper, stopAccepted, hostVars, loopVars, unitVars>>

\* main_orchestrator prints its result object
ChildPrints(c) ==
    /\ child[c].state = "running"
    /\ \E st \in RunStatuses :
          child' = [child EXCEPT ![c].state = "printed", ![c].out = "result", ![c].st = st]
    /\ UNCHANGED <<active_process, stop_requested, chat, stopper, stopAccepted, hostVars, loopVars, unitVars>>

\* ... and exits 0
ChildExits(c) ==
    /\ child[c].state = "printed"
    /\ child' = [child EXCEPT ![c].state = "exited"]
    /\ UNCHANGED <<active_process, stop_requested, chat, stopper, stopAccepted, hostVars, loopVars, unitVars>>

\* the child dies on its own (uncaught exception: main_orchestrator has no
\* try around run) with nothing, or with something that is not JSON, on stdout
ChildCrashes(c) ==
    /\ child[c].state = "running"
    /\ \E out \in {"", "garbage"} :
          child' = [child EXCEPT ![c].state = "exited", ![c].out = out, ![c].code = 1]
    /\ UNCHANGED <<active_process, stop_requested, chat, stopper, stopAccepted, hostVars, loopVars, unitVars>>

\* /api/stop, the locked part: no live process in the slot -> the slot and
\* the flag are cleared and the answer is stopped=false; otherwise the flag
\* is set and the process remembered.
StopCheck(s) ==
    /\ stopper[s].pc = "waiting"
    /\ IF SlotBusy
       THEN /\ stop_requested' = TRUE
            /\ stopper' = [stopper EXCEPT ![s].pc = "terminating", ![s].process = active_process]
            /\ UNCHANGED active_process
       ELSE /\ active_process' = NoProcess
            /\ stop_requested' = FALSE
            /\ stopper' = [stopper EXCEPT ![s].pc = "answered", ![s].stopped = FALSE]
    /\ UNCHANGED <<child, chat, stopAccepted, hostVars, loopVars, unitVars>>

\* process.terminate(), outside the lock, then the answer stopped=true.  A
\* child that had printed its result keeps it on the pipe; one killed while
\* running leaves nothing, or a truncated write.
terminate(p) ==
    IF child[p].state = "running"
    THEN {[child EXCEPT ![p].state = "exited", ![p].out = out, ![p].code = 143] : out \in {"", "garbage"}}
    ELSE IF child[p].state = "printed"
    THEN {[child EXCEPT ![p].state = "exited", ![p].code = 143]}
    ELSE {child}

StopTerminate(s) ==
    /\ stopper[s].pc = "terminating"
    /\ child' \in terminate(stopper[s].process)
    /\ stopper' = [stopper EXCEPT ![s].pc = "answered", ![s].stopped = TRUE]
    /\ stopAccepted' = stopAccepted \cup {stopper[s].process}
    /\ UNCHANGED <<active_process, stop_requested, chat, hostVars, loopVars, unitVars>>

(***************************************************************************)
(* Tool Host: initial state and the one action (a process per request).    *)
(***************************************************************************)
OutsideFs ==
    (<<>> :> Dir) @@ (<<"out">> :> Dir) @@ (<<"etc">> :> Dir) @@ (<<"etc", "passwd">> :> File("plain"))

EmptyWorkspace == (WorkspaceRoot :> Dir) @@ OutsideFs
PopulatedWorkspace ==
    (<<"ws", "index.html">> :> File("html")) @@ (<<"ws", "app">> :> Dir)
    @@ (<<"ws", "app", "tests.js">> :> File("tests")) @@ EmptyWorkspace

\* What the process finds around it, beside the request: whether
\* WORKSPACE_ROOT is a directory, whether stdin is decoded strictly, whether a
\* node binary is installed and how the node child ends.  Only the requests
\* that can tell the difference are run under more than the default.
Env(rootOk, strict, node, outcome) ==
    [rootOk |-> rootOk, strict |-> strict, node |-> node, outcome |-> outcome]

EnvsFor(req) ==
    IF req.raw = "undecodable" THEN {Env(TRUE, s, TRUE, "pass") : s \in BOOLEAN}
    ELSE IF req.action = "list_tools" THEN {Env(r, TRUE, TRUE, "pass") : r \in BOOLEAN}
    ELSE IF req.tool = "run_unit_tests"
        THEN {Env(TRUE, TRUE, n, o) : n \in BOOLEAN, o \in {"pass", "fail", "timeout"}}
    ELSE {Env(TRUE, TRUE, TRUE, "pass")}

IdleOut == [printed |-> 0, ok |-> FALSE, errType |-> "", errMsg |-> "", exit |-> 0, escaped |-> FALSE]

HostInit ==
    /\ fs \in {EmptyWorkspace, PopulatedWorkspace}
    /\ hasLink \in BOOLEAN
    /\ hostIn = NoRequest
    /\ hostOut = IdleOut
    /\ hostRun = NoRun
    /\ hostCalls = 0

\* One Tool Host process: read the request, answer, exit.
HostProcess ==
    /\ hostIn = NoRequest
    /\ hostCalls < MaxHostCalls
    /\ \E req \in Requests :
          \E env \in EnvsFor(req) :
             \E r \in {hostMain(req, fs, hasLink, env.rootOk, env.strict, env.node, env.outcome)} :
                 /\ hostIn' = [req EXCEPT !.raw = IF env.rootOk THEN req.raw ELSE "no_root"]
                 /\ hostOut' = r.out
                 /\ hostRun' = r.run
                 /\ fs' = r.nfs
    /\ hostCalls' = hostCalls + 1
    /\ UNCHANGED <<hasLink, gwVars, loopVars, unitVars>>

\* The caller has read the answer; the next request starts a fresh process on
\* the file system the last one left.
HostNextRequest ==
    /\ hostIn # NoRequest
    /\ hostIn' = NoRequest
    /\ hostOut' = IdleOut
    /\ hostRun' = NoRun
    /\ UNCHANGED <<fs, hasLink, hostCalls, gwVars, loopVars, unitVars>>

HostNext == HostProcess \/ HostNextRequest

(***************************************************************************)
(* The file tools on the bytes of a file: create_file writes the UTF-8     *)
(* encoding of its text, read_file reads bytes, cuts them at max_bytes and *)
(* decodes what is left with errors="replace".  A text is a sequence of    *)
(* characters; a byte is kept as the character it belongs to and its       *)
(* position in that character's encoding.                                  *)
(***************************************************************************)
Chars == {"a", "e_acute"}
Replacement == "U+FFFD"
Width(ch) == CASE ch = "a" -> 1 [] ch = "e_acute" -> 2 [] ch = "{" -> 1 [] ch = "LF" -> 1 [] OTHER -> 3
Texts == UNION {[1..n -> Chars] : n \in 0..MaxChars}

\* str.encode("utf-8")
RECURSIVE utf8(_)
utf8(text) ==
    IF text = <<>> THEN <<>>
    ELSE [i \in 1..Width(Head(text)) |-> [ch |-> Head(text), i |-> i]] \o utf8(Tail(text))

\* the bytes of one character that stand at the head of raw: the lead byte and
\* the continuation bytes that follow it in order
RECURSIVE Run(_, _)
Run(raw, i) ==
    IF raw # <<>> /\ Head(raw).i = i /\ i <= Width(Head(raw).ch)
       /\ (Len(raw) > 1 /\ Head(raw).ch = raw[2].ch /\ raw[2].i = i + 1)
    THEN 1 + Run(Tail(raw), i + 1)
    ELSE 1

\* bytes.decode("utf-8", errors="replace"): a complete character is given
\* back, an incomplete one becomes one U+FFFD
RECURSIVE decode(_)
decode(raw) ==
    IF raw = <<>> THEN <<>>
    ELSE LET b == Head(raw)
             n == IF b.i = 1 THEN Run(raw, 1) ELSE 1
             rest == SubSeq(raw, n + 1, Len(raw))
         IN  IF b.i = 1 /\ n = Width(b.ch) THEN <<b.ch>> \o decode(rest)
             ELSE <<Replacement>> \o decode(rest)

Prefix(raw, n) == IF n < Len(raw) THEN SubSeq(raw, 1, n) ELSE raw

Absent == [there |-> FALSE, raw |-> <<>>]
Bytes(raw) == [there |-> TRUE, raw |-> raw]
IndexPath == "index.html"
LogPath == ".low-cortisol-html-logs/tool_actions.log"
Targets == {IndexPath, LogPath}
\* json.dumps(entry) + "\n"
LogLine == <<"{", "LF">>

NoFiles == [t \in Targets |-> Absent]
UsedFiles == (IndexPath :> Bytes(utf8(<<"e_acute">>))) @@ (LogPath :> Bytes(utf8(LogLine)))

\* log_tool_action: open(..., "a") and write one line
log_tool_action(files) ==
    [files EXCEPT ![LogPath] = Bytes(@.raw \o utf8(LogLine))]

NotCalled == [called |-> FALSE, ok |-> FALSE, truncated |-> FALSE, size_bytes |-> 0, content |-> <<>>]
Failed == [NotCalled EXCEPT !.called = TRUE]

\* create_file_tool under with_logging, on the bytes: [files, answer]
CreateFileText(files, p, c, overwrite) ==
    LET done == IF Len(utf8(c)) > MAX_FILE_BYTES THEN [files |-> files, answer |-> Failed]
                ELSE IF files[p].there /\ ~overwrite THEN [files |-> files, answer |-> Failed]
                ELSE [files |-> [files EXCEPT ![p] = Bytes(utf8(c))],
                      answer |-> [Failed EXCEPT !.ok = TRUE, !.size_bytes = Len(utf8(c))]]
    IN  [done EXCEPT !.files = log_tool_action(@)]

\* read_file_tool under with_logging, on the bytes: [files, answer]
ReadFileText(files, p, max_bytes) ==
    LET raw == files[p].raw
        chunk == Prefix(raw, max_bytes)
        done == IF max_bytes < 1 \/ max_bytes > MAX_READ_BYTES THEN Failed
                ELSE IF ~files[p].there THEN Failed
                ELSE [called |-> TRUE, ok |-> TRUE, truncated |-> Len(raw) > max_bytes,
                      size_bytes |-> Len(raw), content |-> decode(chunk)]
    IN  [files |-> log_tool_action(files), answer |-> done]

DiskInit ==
    disk \in [pc : {"start"}, p : Targets, c : Texts, overwrite : BOOLEAN,
              max_bytes : 0..MaxAskedBytes, files : {NoFiles, UsedFiles},
              created : {NotCalled}, read : {NotCalled}]

DiskQuiet ==
    disk = [pc |-> "done", p |-> IndexPath, c |-> <<>>, overwrite |-> FALSE, max_bytes |-> 1,
            files |-> NoFiles, created |-> NotCalled, read |-> NotCalled]

\* one Tool Host process: call_tool create_file {relative_path: p, content: c}
DiskCreate ==
    /\ disk.pc = "start"
    /\ \E r \in {CreateFileText(disk.files, disk.p, disk.c, disk.overwrite)} :
          disk' = [disk EXCEPT !.pc = "created", !.files = r.files, !.created = r.answer]
    /\ UNCHANGED <<hostVars, gwVars, loopVars, memVars, prunerVars, selectVars, rangeVars>>

\* the next Tool Host process: call_tool read_file {relative_path: p, max_bytes}
DiskRead ==
    /\ disk.pc = "created"
    /\ \E r \in {ReadFileText(disk.files, disk.p, disk.max_bytes)} :
          disk' = [disk EXCEPT !.pc = "read", !.files = r.files, !.read = r.answer]
    /\ UNCHANGED <<hostVars, gwVars, loopVars, memVars, prunerVars, selectVars, rangeVars>>

DiskNext == DiskCreate \/ DiskRead

(***************************************************************************)
(* replace_range_tool (file_tools.py) on the characters of one file.  A    *)
(* text is a sequence of characters; "LF" is the line feed.  The path is   *)
(* an acceptable one and names no directory; the call carries "content".   *)
(***************************************************************************)
SourceTexts == UNION {[1..n -> {"x", "LF"}] : n \in 0..MaxSourceChars}
RangeContents == UNION {[1..n -> {"y", "LF"}] : n \in 0..MaxChars}

\* the index of the first line feed of text, or 0
FirstLF(text) ==
    IF \E i \in DOMAIN text : text[i] = "LF"
    THEN CHOOSE i \in DOMAIN text : text[i] = "LF" /\ \A j \in 1..(i - 1) : text[j] # "LF"
    ELSE 0

\* str.splitlines(keepends=True)
RECURSIVE splitlines(_)
splitlines(text) ==
    IF text = <<>> THEN <<>>
    ELSE IF FirstLF(text) = 0 THEN <<text>>
    ELSE <<SubSeq(text, 1, FirstLF(text))>> \o splitlines(SubSeq(text, FirstLF(text) + 1, Len(text)))

\* "".join(lines)
RECURSIVE join(_)
join(lines) == IF lines = <<>> THEN <<>> ELSE Head(lines) \o join(Tail(lines))

endswithLF(text) == text # <<>> /\ text[Len(text)] = "LF"

RangeAnswer(ok, error, effective_start_line, effective_end_line) ==
    [ok |-> ok, error |-> error,
     effective_start_line |-> effective_start_line, effective_end_line |-> effective_end_line]
RangeNotCalled == RangeAnswer(FALSE, "not called", 0, 0)
RangeRaise(file, error) == [file |-> file, answer |-> RangeAnswer(FALSE, error, 0, 0)]

\* replace_range_tool: the file after the call and the answer
replace_range_tool(file, start_line, end_line, content, allow_empty) ==
    LET Replaced(lines) ==
            LET n == Len(lines)
                min(a, b) == IF a < b THEN a ELSE b
                max(a, b) == IF a > b THEN a ELSE b
                start_idx == min(max(start_line - 1, 0), n)
                end_idx == min(max(end_line, start_idx), n)
                replacement ==
                    IF content # <<>> /\ ~endswithLF(content)
                       /\ \E i \in DOMAIN lines : endswithLF(lines[i])
                    THEN Append(content, "LF") ELSE content
            IN  [file |-> Bytes(join(SubSeq(lines, 1, start_idx) \o <<replacement>>
                                     \o SubSeq(lines, end_idx + 1, n))),
                 answer |-> RangeAnswer(TRUE, "", start_idx + 1, end_idx)]
    IN  IF content = <<>> /\ ~allow_empty THEN RangeRaise(file, "replacement text is empty")
        ELSE IF start_line < 1 \/ end_line < start_line
            THEN RangeRaise(file, "start_line/end_line are invalid")
        ELSE Replaced(splitlines(file.raw))

RangeInit ==
    ranged \in [pc : {"start"}, file : {Absent} \cup {Bytes(raw) : raw \in SourceTexts},
                start_line : 0..MaxLine, end_line : 0..MaxLine, content : RangeContents,
                allow_empty : BOOLEAN, after : {Absent}, answer : {RangeNotCalled}]

RangeQuiet ==
    ranged = [pc |-> "done", file |-> Absent, start_line |-> 0, end_line |-> 0, content |-> <<>>,
              allow_empty |-> FALSE, after |-> Absent, answer |-> RangeNotCalled]

\* replace_range_tool is called on the file
RangeReplace ==
    /\ ranged.pc = "start"
    /\ \E r \in {replace_range_tool(ranged.file, ranged.start_line, ranged.end_line,
                                      ranged.content, ranged.allow_empty)} :
          ranged' = [ranged EXCEPT !.pc = "done", !.after = r.file, !.answer = r.answer]
    /\ UNCHANGED <<hostVars, gwVars, loopVars, diskVars, memVars, prunerVars, selectVars>>

RangeNext == RangeReplace

(***************************************************************************)
(* ProjectMemory (orchestrator/project_memory.py).  The workspace is what  *)
(* refresh() sees of it: for each path whether a regular file is there and *)
(* its stat.  Between two refreshes the tools change the workspace.        *)
(***************************************************************************)
MemPaths == <<<<".env">>, <<"app", "tests.js">>, <<"index.html">>, <<"node_modules", "x.js">>>>
MemPathSet == {MemPaths[i] : i \in DOMAIN MemPaths}
Stats == [mtime_ns : 1..2, size_bytes : 1..2]
NotThere == [there |-> FALSE, mtime_ns |-> 0, size_bytes |-> 0]
There(st) == [there |-> TRUE, mtime_ns |-> st.mtime_ns, size_bytes |-> st.size_bytes]

\* _ignore_path
ignored_roots ==
    {".git", ".venv", "venv", "node_modules", "dist", "build", "coverage", "__pycache__",
     ".low-cortisol-html-logs"}
StartsWithDot(part) == part \in {".env", ".git", ".venv", ".low-cortisol-html-logs"}
_ignore_path(rel) ==
    \/ \E i \in DOMAIN rel : rel[i] \in ignored_roots
    \/ \E i \in DOMAIN rel : StartsWithDot(rel[i])

FileSnapshot(st, touched, changes) ==
    [mtime_ns |-> st.mtime_ns, size_bytes |-> st.size_bytes,
     touched_count |-> touched, change_count |-> changes]

\* refresh(), from the i-th path of the sorted walk on.  vanished: the files
\* that are removed between is_file() and stat() (stat raises OSError);
\* broken: the files for which ollama_client.embed raises.  The result says
\* whether refresh returned, and what self.snapshots holds then.
RECURSIVE Walk(_, _, _, _, _, _)
Walk(i, snaps, discovered, tr, vanished, broken) ==
    IF i > Len(MemPaths)
    THEN [completed |-> TRUE,
          snapshots |-> [k \in DOMAIN snaps \cap discovered |-> snaps[k]],
          stale |-> DOMAIN snaps \ discovered]
    ELSE LET rel == MemPaths[i]
             existing == rel \in DOMAIN snaps
             same == existing /\ snaps[rel].mtime_ns = tr[rel].mtime_ns
                              /\ snaps[rel].size_bytes = tr[rel].size_bytes
             snap == FileSnapshot(tr[rel], IF existing THEN snaps[rel].touched_count ELSE 0,
                                  IF existing THEN snaps[rel].change_count + 1 ELSE 0)
         IN  IF ~tr[rel].there THEN Walk(i + 1, snaps, discovered, tr, vanished, broken)
             ELSE IF _ignore_path(rel) THEN Walk(i + 1, snaps, discovered, tr, vanished, broken)
             ELSE IF rel \in vanished THEN Walk(i + 1, snaps, discovered, tr, vanished, broken)
             ELSE IF same THEN Walk(i + 1, snaps, discovered \cup {rel}, tr, vanished, broken)
             ELSE IF rel \in broken THEN [completed |-> FALSE, snapshots |-> snaps, stale |-> {}]
             ELSE Walk(i + 1, (rel :> snap) @@ snaps, discovered \cup {rel}, tr, vanished, broken)

\* refresh() that leaves the snapshots of files that are gone
refresh_keeping(snaps, tr, vanished, broken) ==
    LET r == Walk(1, snaps, {}, tr, vanished, broken)
    IN  IF r.completed THEN [r EXCEPT !.snapshots = [k \in DOMAIN r.snapshots \cup r.stale |->
                                                        IF k \in r.stale THEN snaps[k] ELSE r.snapshots[k]]]
        ELSE r

refresh(snaps, tr, vanished, broken) == Walk(1, snaps, {}, tr, vanished, broken)

NoSnapshots == [k \in {} |-> FileSnapshot([mtime_ns |-> 0, size_bytes |-> 0], 0, 0)]
Trees == {[k \in MemPathSet |-> NotThere], [k \in MemPathSet |-> There([mtime_ns |-> 1, size_bytes |-> 1])]}

MemInit ==
    /\ tree \in Trees
    /\ memory = [snapshots |-> NoSnapshots, last |-> "none", stale |-> {}, changes |-> 0]

MemQuiet ==
    /\ tree = [k \in MemPathSet |-> NotThere]
    /\ memory = [snapshots |-> NoSnapshots, last |-> "none", stale |-> {}, changes |-> MaxChanges]

(***************************************************************************)
(* ToolPruner._load_or_generate_vectors (orchestrator/tool_pruner.py).     *)
(* A vector is kept as the model that produced it and the tool it embeds.  *)
(* The vectors file is what _read_vectors_file makes of it: the model it   *)
(* names ("none" when the file is missing or unreadable) and the vectors   *)
(* it holds, by tool name.                                                 *)
(***************************************************************************)
EmbeddingModels == {"nomic", "minilm"}
PrunerTools == <<"create_file", "read_file", "list_directory">>
PrunerToolSet == {PrunerTools[i] : i \in DOMAIN PrunerTools}

\* ollama_client.embed(embedding_model, text=_tool_to_text(tool))
embed(model, name) == [by |-> model, of |-> name]

NoVectorsFile == [embedding_model |-> "none", vectors |-> [k \in {} |-> embed("none", k)]]
\* _write_vectors_file
VectorsFile(model, vectors) == [embedding_model |-> model, vectors |-> vectors]

\* the loop over tools, from the i-th tool on
RECURSIVE Vectors(_, _, _, _, _, _)
Vectors(i, tools, cache, model, changed, out) ==
    IF i > Len(tools) THEN [out EXCEPT !.changed = changed]
    ELSE LET name == tools[i]
             cached == name \in DOMAIN cache
         IN  IF cached /\ ~changed
             THEN Vectors(i + 1, tools, cache, model, changed,
                          [out EXCEPT !.result_vectors = (name :> cache[name]) @@ @])
             ELSE Vectors(i + 1, tools, cache, model, TRUE,
                          [out EXCEPT !.result_vectors = (name :> embed(model, name)) @@ @,
                                      !.embedded = @ \cup {name}])

\* _load_or_generate_vectors: the vectors it returns, the tools it had
\* embedded, and the vectors file afterwards
_load_or_generate_vectors(file, tools, model) ==
    LET r == Vectors(1, tools, file.vectors, model, file.embedding_model # model,
                     [result_vectors |-> NoVectorsFile.vectors, embedded |-> {}, changed |-> FALSE])
    IN  [result_vectors |-> r.result_vectors, embedded |-> r.embedded,
         file |-> IF r.changed THEN VectorsFile(model, r.result_vectors) ELSE file]

\* a vectors file an earlier run has left: none, or one written for an earlier
\* catalog with the model of that run
VectorsFiles ==
    {NoVectorsFile} \cup
    {VectorsFile(m, [k \in names |-> embed(m, k)]) : m \in EmbeddingModels, names \in SUBSET PrunerToolSet}

PrunerInit ==
    pruner \in [embedding_model : EmbeddingModels, file : VectorsFiles, was : {NoVectorsFile},
                  result_vectors : {NoVectorsFile.vectors}, embedded : {{}}, last : {"none"}, loads : {0}]

PrunerQuiet ==
    pruner = [embedding_model |-> "nomic", file |-> NoVectorsFile, was |-> NoVectorsFile,
              result_vectors |-> NoVectorsFile.vectors, embedded |-> {}, last |-> "none",
              loads |-> MaxLoads]

NoSelection ==
    [pc |-> "done", rankings |-> [parsed |-> FALSE, rows |-> <<>>], candidates |-> <<>>,
     phase_plan_ready |-> FALSE, workspace_is_empty |-> FALSE, plan_loop_iterations |-> 0,
     reranked |-> <<>>, offered |-> <<>>, recovery |-> <<>>]
SelectQuiet == selection = NoSelection

UnitQuiet == DiskQuiet /\ MemQuiet /\ PrunerQuiet /\ SelectQuiet /\ RangeQuiet

\* retrieve_candidates: vectors = self._load_or_generate_vectors(tools)
PrunerLoad ==
    /\ pruner.loads < MaxLoads
    /\ \E r \in {_load_or_generate_vectors(pruner.file, PrunerTools, pruner.embedding_model)} :
          pruner' = [pruner EXCEPT !.was = pruner.file, !.file = r.file,
                                   !.result_vectors = r.result_vectors, !.embedded = r.embedded,
                                   !.last = "loaded", !.loads = @ + 1]
    /\ UNCHANGED <<hostVars, gwVars, loopVars, diskVars, memVars, selectVars, rangeVars>>

\* between two loads the program is started with another embedding model
PrunerReconfigure ==
    /\ pruner.loads < MaxLoads /\ pruner.last = "loaded"
    /\ \E m \in EmbeddingModels \ {pruner.embedding_model} :
          pruner' = [pruner EXCEPT !.embedding_model = m, !.last = "configured"]
    /\ UNCHANGED <<hostVars, gwVars, loopVars, diskVars, memVars, selectVars, rangeVars>>

PrunerNext == PrunerLoad \/ PrunerReconfigure

\* a tool writes, rewrites or removes a file of the workspace
TreeChange ==
    /\ memory.changes < MaxChanges
    /\ \E k \in MemPathSet : \E st \in {NotThere} \cup {There(x) : x \in Stats} :
          /\ st # tree[k]
          /\ tree' = [tree EXCEPT ![k] = st]
    /\ memory' = [memory EXCEPT !.last = "stale", !.changes = @ + 1]
    /\ UNCHANGED <<hostVars, gwVars, loopVars, diskVars, prunerVars, selectVars, rangeVars>>

\* self.project_memory.refresh()
MemRefresh ==
    /\ memory.last # "completed"
    /\ \E vanished \in SUBSET {k \in MemPathSet : tree[k].there /\ ~_ignore_path(k)} :
       \E broken \in SUBSET {k \in MemPathSet : tree[k].there /\ ~_ignore_path(k)} :
       \E r \in {refresh(memory.snapshots, tree, vanished, broken)} :
          /\ tree' = [k \in MemPathSet |-> IF k \in vanished THEN NotThere ELSE tree[k]]
          /\ memory' = [memory EXCEPT !.snapshots = r.snapshots, !.stale = r.stale,
                                       !.last = IF r.completed THEN "completed" ELSE "raised"]
    /\ UNCHANGED <<hostVars, gwVars, loopVars, diskVars, prunerVars, selectVars, rangeVars>>

\* mark_touched
MemMarkTouched ==
    /\ memory.last = "completed"
    /\ \E k \in DOMAIN memory.snapshots :
          /\ memory.snapshots[k].touched_count < 1
          /\ memory' = [memory EXCEPT !.snapshots[k].touched_count = @ + 1]
    /\ UNCHANGED <<tree, hostVars, gwVars, loopVars, diskVars, prunerVars, selectVars, rangeVars>>

MemNext == TreeChange \/ MemRefresh \/ MemMarkTouched

(***************************************************************************)
(* Loop Controller (orchestrator/loop_controller.py): LoopController.run.  *)
(* The language model, the planner and the reranker are the environment:   *)
(* what they answer is chosen freely from small vocabularies.  The Tool    *)
(* Host the controller starts for each dispatched call is the one modelled *)
(* above, run on the same file system.                                     *)
(***************************************************************************)
top_k_tools == 5
max_tool_calls_per_iteration == 8
max_total_deferrals == 4
max_no_progress_iterations == 6
max_repeated_signatures == 3
max_files_per_iteration == 4
min_iterations == 4

\* Bounds: the answers a model with a wide vocabulary gives in one run, and
\* the tool calls in one answer.
MaxIterations == 3
MaxCallsPerResponse == 2
MaxScriptedIterations == 6

Min(a, b) == IF a < b THEN a ELSE b
Max(a, b) == IF a > b THEN a ELSE b
Range(s) == {s[i] : i \in DOMAIN s}

\* the element of a one-element set: The({F(v) : v \in {e}}) is F(e), with e
\* computed once
The(S) == CHOOSE v \in S : TRUE

\* a Python dict: d.get(k, default), d[k] = v
EmptyDict == [k \in {} |-> 0]
Get(d, k, default) == IF k \in DOMAIN d THEN d[k] ELSE default
Put(d, k, v) == (k :> v) @@ d

\* a non-empty Python string used as a path
Truthy(s) == s.chars # 0

IndexHtml == Rel(<<"index.html">>)
DotIndexHtml == Rel(<<".", "index.html">>)
StylesCss == Rel(<<"styles.css">>)
AppJs == Rel(<<"app.js">>)
TestsJs == Rel(<<"tests.js">>)

LastName(s) == IF s.segs = <<>> THEN "" ELSE s.segs[Len(s.segs)]

\* path.lower().endswith("." + ext), over the file names of the model
EndsWith(s, ext) ==
    CASE ext = "html" -> LastName(s) = "index.html"
      [] ext = "css"  -> LastName(s) = "styles.css"
      [] ext = "js"   -> LastName(s) \in {"app.js", "tests.js", "test.js", "spec.js", "specs.js"}
      [] OTHER -> FALSE

\* re.search(r"(test|spec)s?\.js$", path.lower())
IsTestPath(s) == IsTestFileName(LastName(s))

\* self.tools: the catalog load_tools_from_mcp builds from list_tools, in the
\* order the Tool Host registers its tools
Catalog ==
    <<"create_file", "read_file", "list_directory", "scaffold_web_app",
      "validate_web_app", "run_unit_tests", "plan_web_build", "dummy_sandbox_echo">>

EditTools == {"create_file", "append_to_file", "insert_after_marker", "replace_range"}
StructuredEditTools == {"append_to_file", "insert_after_marker", "replace_range"}

\* items[: max(1, min(n, len(items)))]
Take(s, n) == IF s = <<>> THEN <<>> ELSE SubSeq(s, 1, Max(1, Min(n, Len(s))))
Keep(s, names) == SelectSeq(s, LAMBDA x : x \in names)

\* the "seen" loops: the first occurrence of each item, in order
RECURSIVE Dedupe(_, _)
Dedupe(s, seen) ==
    IF s = <<>> THEN <<>>
    ELSE IF Head(s) \in seen THEN Dedupe(Tail(s), seen)
    ELSE <<Head(s)>> \o Dedupe(Tail(s), seen \cup {Head(s)})

\* _merge_tools_by_name without its seen_names
_merge_tools_by_name_all(selected_tools, required_names) ==
    selected_tools \o Keep(Catalog, required_names)

_merge_tools_by_name(selected_tools, required_names) ==
    Dedupe(selected_tools \o Keep(Catalog, required_names), {})

_ensure_required_tools(selected_tools, phase_plan_ready, workspace_is_empty) ==
    LET required_names ==
            {"list_directory", "read_file", "create_file",
             "append_to_file", "insert_after_marker", "replace_range"}
            \cup (IF ~phase_plan_ready THEN {"plan_web_build"} ELSE {})
            \cup (IF ~phase_plan_ready /\ workspace_is_empty THEN {"scaffold_web_app"} ELSE {})
        limit == Max(top_k_tools, Cardinality(required_names))
    IN  The({ Take(merged, limit) : merged \in {_merge_tools_by_name(selected_tools, required_names)} })

\* run(), from the reranker's answer to the list given to the model.  Each
\* list of the code is computed once and handed on by value.
SelectTools(reranked, phase_plan_ready, workspace_is_empty, plan_loop_iterations) ==
    LET planning_tool_names ==
            {"plan_web_build", "list_directory", "read_file"}
            \cup (IF workspace_is_empty THEN {"scaffold_web_app", "create_file"} ELSE {})
        forced_names ==
            IF workspace_is_empty
            THEN <<"plan_web_build", "scaffold_web_app", "create_file", "list_directory">>
            ELSE <<"plan_web_build", "read_file", "list_directory">>
        Prioritized(first) ==
            The({ IF deduped # <<>> THEN Take(deduped, top_k_tools) ELSE first :
                  deduped \in {Dedupe(Keep(first, planning_tool_names)
                                      \o Keep(Catalog, planning_tool_names), {})} })
        Forced(prioritized) ==
            The({ IF forced_tools # <<>> THEN Take(forced_tools, top_k_tools) ELSE prioritized :
                  forced_tools \in
                    {Keep(forced_names, Range(Catalog))
                     \o SelectSeq(prioritized,
                                  LAMBDA x : x \notin {"plan_web_build", "read_file", "list_directory"})} })
        Selected(first) ==
            IF phase_plan_ready THEN first
            ELSE The({ IF plan_loop_iterations >= 2 THEN Forced(prioritized) ELSE prioritized :
                       prioritized \in {Prioritized(first)} })
    IN  The({ _ensure_required_tools(selected_tools, phase_plan_ready, workspace_is_empty) :
              selected_tools \in
                { The({ Selected(first) :
                        first \in {IF reranked = <<>> THEN Take(Catalog, top_k_tools) ELSE reranked} }) } })

\* What the reranker may select: at most top_k_tools of the candidates, in
\* the order of its scores; nothing when it is given no candidate.
RerankedSamples ==
    { <<>>,
      <<"create_file", "read_file">>,
      <<"validate_web_app", "run_unit_tests", "dummy_sandbox_echo", "scaffold_web_app", "plan_web_build">> }

\* _is_workspace_empty: nothing under the root but ignored and hidden names
IgnoredName(name) ==
    name \in {".git", ".venv", "venv", "node_modules", "dist", "build", "coverage",
              "__pycache__", ".low-cortisol-html-logs"}
_is_workspace_empty(f) ==
    ~\E p \in DOMAIN f :
        /\ InWorkspace(p) /\ p # WorkspaceRoot
        /\ \A i \in (Len(WorkspaceRoot) + 1)..Len(p) : ~IgnoredName(p[i])

\* _resolve_workspace_file: the resolved path, or <<>> for None
_resolve_workspace_file(relative_path, link) ==
    IF ~Truthy(Strip(relative_path)) THEN <<>>
    ELSE IF InWorkspace(Candidate(Strip(relative_path), link)) THEN Candidate(Strip(relative_path), link)
    ELSE <<>>

\* _normalize_workspace_relative_path
_normalize_workspace_relative_path(raw_path, link) ==
    LET candidate == Strip(raw_path)
        Relative(resolved) ==
            IF ~InWorkspace(resolved) \/ resolved = WorkspaceRoot THEN DotStr
            ELSE Rel(SubSeq(resolved, Len(WorkspaceRoot) + 1, Len(resolved)))
    IN  IF ~Truthy(candidate) THEN candidate
        ELSE IF ~IsAbsolute(candidate) THEN candidate
        ELSE Relative(ResolveFrom(<<>>, candidate.segs, link))

(***************************************************************************)
(* What the language model answers: a message and tool calls.              *)
(***************************************************************************)
ToolCall(name, arguments) == [name |-> name, arguments |-> arguments]

\* A message, as far as run() looks at it: its prefix, whether it is the
\* empty string, and which of the phrases the code searches for it holds.
Message(prefix, empty, manual_verify, mentions_validation, completion_marker) ==
    [prefix |-> prefix, empty |-> empty, manual_verify |-> manual_verify,
     mentions_validation |-> mentions_validation, completion_marker |-> completion_marker]

MsgText == Message("", FALSE, FALSE, FALSE, FALSE)
MsgEmpty == Message("", TRUE, FALSE, FALSE, FALSE)
MsgDone == Message("DONE:", FALSE, FALSE, FALSE, FALSE)
MsgDoneValidated == Message("DONE:", FALSE, FALSE, TRUE, FALSE)
MsgStop == Message("STOP:", FALSE, FALSE, FALSE, FALSE)
MsgManualVerify == Message("", FALSE, TRUE, FALSE, FALSE)
MsgTestsPassed == Message("", FALSE, FALSE, TRUE, FALSE)
MsgTaskComplete == Message("", FALSE, FALSE, FALSE, TRUE)
\* "The task is complete. Please verify manually in a browser."
MsgCompleteManual == Message("", FALSE, TRUE, FALSE, TRUE)
\* "All unit tests have passed.": a completion marker that holds the token
\* "tests have passed" of _claims_success_without_evidence
MsgAllTestsPassed == Message("", FALSE, FALSE, TRUE, TRUE)

Messages ==
    {MsgText, MsgEmpty, MsgDone, MsgDoneValidated, MsgStop, MsgManualVerify,
     MsgTestsPassed, MsgTaskComplete}

_is_done_message(content) == content.prefix = "DONE:"
_is_stop_message(content) == content.prefix = "STOP:"
_looks_like_completion_without_done(content) ==
    ~content.empty /\ content.prefix \notin {"DONE:", "STOP:"} /\ content.completion_marker
_claims_success_without_evidence(content, last_validation_ok, tests_runs) ==
    ~content.empty /\ content.mentions_validation /\ ~(last_validation_ok /\ tests_runs > 0)

\* The vocabularies.  "rewrite": full rewrites of index.html and reads of it.
\* "edit": a structured edit, a scaffold and the same file under another
\* spelling.  "talk": a model that mostly talks and only looks around.
\* "gate", "finish", "stall", "stop": models that follow a script, one of its
\* lines per answer: a build that asks for validation and tests, a build that
\* rewrites the files of a site that exists, a model that only plans or
\* checks, and a model that looks around and writes STOP: next to a call.
\* "blank": a model whose writes name no file or carry no content.
\* "flood": a model that puts one call more than max_tool_calls_per_iteration
\* into one answer.  "absolute": a model that names the files of the
\* workspace by their absolute paths.  "alias": a model that writes one file
\* under two spellings of its path, or rewrites and appends in turn.
WideScenarios == {"rewrite", "edit"}
NarrowScenarios == {"talk"}
ScriptedScenarios == {"gate", "finish", "stall", "stop", "blank", "flood", "absolute", "alias"}

WriteArgs(p, c) == ("relative_path" :> VPath(p)) @@ ("content" :> VText(c))
ReadArgs(p) == ("relative_path" :> VPath(p))
DirArgs(k, p) == (k :> VPath(p))

CallsOf(sc) ==
    CASE sc = "rewrite" ->
            { ToolCall("create_file", WriteArgs(IndexHtml, "html")),
              ToolCall("create_file", WriteArgs(IndexHtml, "plain")),
              ToolCall("read_file", ReadArgs(IndexHtml)),
              ToolCall("read_file", ("max_bytes" :> VInt(MAX_READ_BYTES + 1)) @@ ReadArgs(IndexHtml)) }
      [] sc = "edit" ->
            { ToolCall("create_file", WriteArgs(DotIndexHtml, "plain")),
              ToolCall("append_to_file", WriteArgs(IndexHtml, "plain")),
              ToolCall("read_file", ReadArgs(IndexHtml)),
              ToolCall("scaffold_web_app", DirArgs("app_dir", DotStr)) }
      [] sc = "talk" ->
            { ToolCall("read_file", ReadArgs(IndexHtml)),
              ToolCall("list_directory", DirArgs("relative_path", DotStr)) }

ReadmeMd == Rel(<<"README.md">>)
NotesMd == Rel(<<"notes.md">>)

Validate == ToolCall("validate_web_app", DirArgs("app_dir", DotStr))
RunTests == ToolCall("run_unit_tests", DirArgs("test_file", TestsJs))
Scaffold == ToolCall("scaffold_web_app", DirArgs("app_dir", DotStr))
Plan == ToolCall("plan_web_build", ("summary" :> VText("plain")))
Create(p, c) == ToolCall("create_file", WriteArgs(p, c))

Scripts(sc) ==
    CASE sc = "gate" ->
            { <<Create(ReadmeMd, "plain"), Validate>>, <<Validate>>, <<Scaffold, Validate>>,
              <<Create(ReadmeMd, "plain"), Scaffold>>, <<Validate, RunTests>>,
              <<Create(NotesMd, "plain"), RunTests>> }
      [] sc = "finish" ->
            { <<Create(IndexHtml, "html"), Create(StylesCss, "plain")>>,
              <<Create(TestsJs, "tests"), Validate>>, <<Validate, RunTests>>, <<Validate>> }
      [] sc = "stall" ->
            { <<Validate>>, <<RunTests>>, <<Plan>> }
      [] sc = "stop" ->
            { <<ToolCall("read_file", ReadArgs(IndexHtml))>>,
              <<ToolCall("dummy_sandbox_echo", ReadArgs(Abs(<<"out", "secret">>)))>> }
      [] sc = "blank" ->
            { <<Create(EmptyStr, "plain")>>, <<Create(NotesMd, "")>>,
              <<ToolCall("append_to_file", WriteArgs(BlankStr, "plain"))>>,
              <<ToolCall("append_to_file", WriteArgs(NotesMd, ""))>> }
      [] sc = "flood" ->
            { <<ToolCall("read_file", ReadArgs(IndexHtml))>>,
              <<ToolCall("read_file", ReadArgs(IndexHtml)), Create(StylesCss, "plain"),
                Create(AppJs, "plain"), Create(TestsJs, "tests"), Create(ReadmeMd, "plain"),
                ToolCall("list_directory", DirArgs("relative_path", DotStr)),
                ToolCall("read_file", ReadArgs(StylesCss)), ToolCall("read_file", ReadArgs(AppJs)),
                Create(NotesMd, "plain")>> }
      [] sc = "alias" ->
            { <<Create(IndexHtml, "html"), Create(DotIndexHtml, "plain")>>,
              <<Create(DotIndexHtml, "plain"), Create(IndexHtml, "html")>>,
              <<Create(NotesMd, "plain"), ToolCall("append_to_file", WriteArgs(NotesMd, "plain"))>>,
              <<ToolCall("append_to_file", WriteArgs(NotesMd, "plain")), Create(NotesMd, "plain")>> }
      [] sc = "absolute" ->
            { <<Create(Abs(<<"ws", "index.html">>), "html")>>,
              <<ToolCall("read_file", ReadArgs(Abs(<<"ws", "index.html">>)))>>,
              <<ToolCall("append_to_file", WriteArgs(Abs(<<"ws", "index.html">>), "plain"))>>,
              <<ToolCall("list_directory", DirArgs("relative_path", Abs(<<"ws">>)))>>,
              <<ToolCall("scaffold_web_app", DirArgs("app_dir", Abs(<<"ws", "app">>)))>>,
              <<ToolCall("validate_web_app", DirArgs("app_dir", Abs(<<"ws">>)))>>,
              <<ToolCall("run_unit_tests", DirArgs("test_file", Abs(<<"ws", "tests.js">>)))>> }

\* (the model "flood" gives its long answer wherever an answer may hold more
\* than one call)
CallSeqs(sc, most) ==
    IF sc \in ScriptedScenarios
    THEN {s \in Scripts(sc) : Len(s) <= most \/ (sc = "flood" /\ most > 1)}
    ELSE UNION {[1..n -> CallsOf(sc)] : n \in 1..most}

\* how many answers a scripted model gives
Answering(sc) ==
    CASE sc = "gate" -> MaxScriptedIterations - 2
      [] sc = "finish" -> MaxScriptedIterations - 1
      [] sc \in {"stop", "blank", "flood", "absolute", "alias"} -> MaxScriptedIterations - 4
      [] OTHER -> MaxScriptedIterations

\* the texts a model of the scenario answers with when it calls no tool
TextsOf(sc) ==
    IF sc = "finish"
    THEN {MsgText, MsgEmpty, MsgDone, MsgStop, MsgTaskComplete, MsgCompleteManual, MsgAllTestsPassed}
    ELSE IF sc \in ScriptedScenarios THEN {MsgText, MsgEmpty, MsgDone, MsgStop} ELSE Messages

\* the text that comes with tool calls
CallTexts(sc) == IF sc = "stop" THEN {MsgText, MsgStop} ELSE {MsgText}

\* _deduplicate_tool_calls
_deduplicate_tool_calls(tool_calls) == Dedupe(tool_calls, {})

\* One answer of the model, after extract_tool_calls.
Answer(content, tool_calls) == [content |-> content, tool_calls |-> tool_calls]
Answers(sc) ==
    {Answer(c, <<>>) : c \in TextsOf(sc)}
    \cup {Answer(c, s) : c \in CallTexts(sc), s \in CallSeqs(sc, MaxCallsPerResponse)}

\* The recovery prompt asks for exactly one tool call, or DONE:, or STOP:.
RecoveryAnswers(sc) ==
    {Answer(c, <<>>) : c \in TextsOf(sc)} \cup {Answer(MsgText, s) : s \in CallSeqs(sc, 1)}

\* Lines 302-349: the chat, and the recovery chat (_recover_tool_calls) when
\* the first answer holds no tool call and is not DONE.  offered is the list
\* of tools given to the chat the calls came from; stop_first: the first
\* answer began with STOP:.
RecoveryTools(selected_tools) ==
    _merge_tools_by_name(selected_tools,
        {"list_directory", "read_file", "create_file", "append_to_file", "insert_after_marker",
         "replace_range", "scaffold_web_app", "plan_web_build", "validate_web_app", "run_unit_tests"})

(***************************************************************************)
(* ToolReranker.rerank (orchestrator/reranker.py) and the selection of one *)
(* iteration.  What the reranker model wrote is kept as what _model_score  *)
(* looks at: whether _parse_json finds an object with a list "rankings",   *)
(* and for each row its name and whether its score is a number.            *)
(***************************************************************************)
Row(name, numeric, score) == [name |-> name, numeric |-> numeric, score |-> score]

\* _model_score: the rows that name a candidate and carry a number, in the
\* order of the answer
_model_score(candidates, rankings) ==
    IF ~rankings.parsed THEN <<>>
    ELSE SelectSeq(rankings.rows, LAMBDA row : row.name \in Range(candidates) /\ row.numeric)

\* sorted(..., key=score, reverse=True): stable, scores 1 before scores 0
ByScore(scored) ==
    SelectSeq(scored, LAMBDA row : row.score = 1) \o SelectSeq(scored, LAMBDA row : row.score # 1)

\* rerank: the names of "selected".  candidates come sorted by their embedding
\* score (retrieve_candidates), which is the order of the fallback.
rerank(candidates, rankings, top_k) ==
    IF candidates = <<>> THEN <<>>
    ELSE LET model_scored == _model_score(candidates, rankings)
             ranked == ByScore(model_scored)
         IN  IF model_scored # <<>>
             THEN [i \in 1..Len(Take(ranked, top_k)) |-> ranked[i].name]
             ELSE Take(candidates, top_k)

RowNames == {"create_file", "read_file", "no_such_tool"}
Rows == {Row(n, FALSE, 0) : n \in RowNames} \cup {Row(n, TRUE, sc) : n \in RowNames, sc \in 0..1}
OffTopic == <<"validate_web_app", "run_unit_tests", "dummy_sandbox_echo", "scaffold_web_app", "plan_web_build">>
\* an answer with an unknown name, a score that is no number, and a name twice
Noisy ==
    <<Row("no_such_tool", TRUE, 1), Row("create_file", FALSE, 0), Row("validate_web_app", TRUE, 1),
      Row("validate_web_app", TRUE, 1), Row("run_unit_tests", TRUE, 0), Row("dummy_sandbox_echo", TRUE, 1)>>
Rankings ==
    {[parsed |-> FALSE, rows |-> <<>>]}
    \cup {[parsed |-> TRUE, rows |-> r] : r \in UNION {[1..n -> Rows] : n \in 0..MaxRows}}
    \cup {[parsed |-> TRUE, rows |-> [i \in 1..Len(OffTopic) |-> Row(OffTopic[i], TRUE, 1)]],
          [parsed |-> TRUE, rows |-> Noisy]}

Reverse(seq) == [i \in 1..Len(seq) |-> seq[Len(seq) + 1 - i]]

SelectInit ==
    selection \in [pc : {"start"}, rankings : Rankings, candidates : {Catalog, Reverse(Catalog)},
                    phase_plan_ready : BOOLEAN, workspace_is_empty : BOOLEAN,
                    plan_loop_iterations : 0..2,
                    reranked : {<<>>}, offered : {<<>>}, recovery : {<<>>}]

\* lines 210-285: rerank, then the list given to the chat
Select ==
    /\ selection.pc = "start"
    /\ \E reranked \in {rerank(selection.candidates, selection.rankings, top_k_tools)} :
       \E offered \in {SelectTools(reranked, selection.phase_plan_ready, selection.workspace_is_empty,
                                    selection.plan_loop_iterations)} :
          selection' = [selection EXCEPT !.pc = "offered", !.reranked = reranked, !.offered = offered]
    /\ UNCHANGED <<hostVars, gwVars, loopVars, diskVars, memVars, prunerVars, rangeVars>>

\* _recover_tool_calls: the list given to the recovery chat
SelectRecovery ==
    /\ selection.pc = "offered"
    /\ selection' = [selection EXCEPT !.pc = "recovery", !.recovery = RecoveryTools(selection.offered)]
    /\ UNCHANGED <<hostVars, gwVars, loopVars, diskVars, memVars, prunerVars, rangeVars>>

SelectNext == Select \/ SelectRecovery

Chat(sc, selected_tools) ==
    LET Direct(a) ==
            [content |-> a.content, tool_calls |-> _deduplicate_tool_calls(a.tool_calls),
             offered |-> Range(selected_tools), recovered |-> FALSE,
             stop_first |-> _is_stop_message(a.content)]
        Recovered(a, b) ==
            [content |-> IF b.content.empty THEN a.content ELSE b.content,
             tool_calls |-> _deduplicate_tool_calls(b.tool_calls),
             offered |-> IF b.tool_calls = <<>> THEN Range(selected_tools)
                         ELSE Range(RecoveryTools(selected_tools)),
             recovered |-> TRUE,
             stop_first |-> _is_stop_message(a.content)]
        NeedsRecovery(a) == a.tool_calls = <<>> /\ ~_is_done_message(a.content)
    IN  {Direct(a) : a \in {x \in Answers(sc) : ~NeedsRecovery(x)}}
        \cup {Recovered(a, b) : a \in {x \in Answers(sc) : NeedsRecovery(x)},
                                b \in {y \in RecoveryAnswers(sc) : y.content.empty}}
        \cup {Recovered(Answer(c, <<>>), b) : c \in {MsgText, MsgStop},
                                               b \in {y \in RecoveryAnswers(sc) : ~y.content.empty}}

(***************************************************************************)
(* _normalize_tool_call                                                    *)
(***************************************************************************)
TOOL_NAME_ALIASES(name) ==
    CASE name \in {"open_file", "view_file", "check_code"} -> "read_file"
      [] name \in {"edit_file", "write_file", "save_file"} -> "create_file"
      [] name = "list_files" -> "list_directory"
      [] OTHER -> name

\* which of the words the code searches for a tool name holds
NameWords(name) ==
    CASE name = "read_file" -> {"read"}
      [] name = "list_directory" -> {"list"}
      [] name = "scaffold_web_app" -> {"scaffold"}
      [] name = "validate_web_app" -> {"valid"}
      [] name = "run_unit_tests" -> {"test"}
      [] name = "plan_web_build" -> {"plan"}
      [] name = "append_to_file" -> {"append"}
      [] name = "insert_after_marker" -> {"insert"}
      [] name = "replace_range" -> {"replace", "range"}
      [] OTHER -> {}

CanonicalName(tool_name) ==
    LET Guess(words) ==
            IF words \cap {"edit", "write", "save"} # {} THEN "create_file"
            ELSE IF "append" \in words THEN "append_to_file"
            ELSE IF "insert" \in words THEN "insert_after_marker"
            ELSE IF {"replace", "range"} \subseteq words THEN "replace_range"
            ELSE IF words \cap {"read", "open", "view"} # {} THEN "read_file"
            ELSE IF words \cap {"list", "ls"} # {} THEN "list_directory"
            ELSE IF "test" \in words THEN "run_unit_tests"
            ELSE IF words \cap {"valid", "check"} # {} THEN "validate_web_app"
            ELSE IF words \cap {"scaffold", "bootstrap"} # {} THEN "scaffold_web_app"
            ELSE IF "plan" \in words THEN "plan_web_build"
            ELSE tool_name
    IN  IF TOOL_NAME_ALIASES(tool_name) # tool_name THEN TOOL_NAME_ALIASES(tool_name)
        ELSE Guess(NameWords(tool_name))

\* arguments[key] = normalized path, when the value is a string and the result non-empty
NormalizedAt(arguments, key, link) ==
    IF Has(arguments, key) /\ arguments[key].t = "string"
       /\ Truthy(_normalize_workspace_relative_path(arguments[key].s, link))
    THEN Put(arguments, key, VPath(_normalize_workspace_relative_path(arguments[key].s, link)))
    ELSE arguments

_normalize_tool_call(call, link) ==
    LET Moved(arguments) ==
            IF Has(arguments, "file_path") /\ ~Has(arguments, "relative_path")
            THEN Put(arguments, "relative_path", arguments["file_path"])
            ELSE arguments
        Defaulted(arguments, key, v) == IF Has(arguments, key) THEN arguments ELSE Put(arguments, key, v)
        Content(arguments) ==
            IF Has(arguments, "replacement_text") /\ ~Has(arguments, "content")
            THEN Put(arguments, "content", arguments["replacement_text"])
            ELSE arguments
        Args(canonical) ==
            CASE canonical = "create_file" -> Defaulted(Moved(call.arguments), "overwrite", VBool(TRUE))
              [] canonical = "replace_range" ->
                    NormalizedAt(Content(Moved(call.arguments)), "relative_path", link)
              [] canonical \in {"append_to_file", "insert_after_marker"} ->
                    NormalizedAt(Moved(call.arguments), "relative_path", link)
              [] canonical = "read_file" -> Moved(call.arguments)
              [] canonical = "list_directory" ->
                    IF Has(call.arguments, "relative_path")
                    THEN NormalizedAt(call.arguments, "relative_path", link)
                    ELSE Put(call.arguments, "relative_path", VPath(DotStr))
              [] canonical \in {"validate_web_app", "scaffold_web_app"} ->
                    NormalizedAt(call.arguments, "app_dir", link)
              [] canonical = "run_unit_tests" -> NormalizedAt(call.arguments, "test_file", link)
              [] OTHER -> call.arguments
        Named(canonical) == [name |-> canonical, arguments |-> Args(canonical)]
    IN  Named(CanonicalName(call.name))

(***************************************************************************)
(* The state of run()                                                      *)
(***************************************************************************)
\* tool_trace, as far as _completion_gaps reads it
NoTrace == [created_files |-> {}, validated_ok |-> FALSE, tests_ok_files |-> {}]

NewRun(empty) ==
    [iteration |-> 0,
     phase_plan_ready |-> FALSE,
     changed_since_validation |-> {},
     changed_since_tests |-> {},
     validation_runs |-> 0,
     tests_runs |-> 0,
     last_validation_ok |-> FALSE,
     validation_ever_passed |-> FALSE,
     consecutive_validation_deferrals |-> 0,
     consecutive_test_deferrals |-> 0,
     total_validation_deferrals |-> 0,
     total_test_deferrals |-> 0,
     no_progress_iterations |-> 0,
     recent_tool_call_signatures |-> <<>>,
     file_generation |-> EmptyDict,
     file_read_generation |-> EmptyDict,
     last_create_file_signature |-> EmptyDict,
     last_structured_edit_signature |-> EmptyDict,
     plan_loop_iterations |-> 0,
     started_from_empty |-> empty,
     substantive_edit_count |-> 0,
     tool_trace |-> NoTrace]

\* What an observer of the pruning log, of the model client, of the Tool Host
\* processes and of memory.messages sees in one iteration: the log events
\* "retrieval" and "selection", the chats of the agent model, the start of a
\* Tool Host process for call number i, a message of role "tool" for it.
Event(kind, call) == [kind |-> kind, call |-> call]

\* lines 210-349: retrieve_candidates logs "retrieval" (tool_pruner.py:66),
\* line 299 logs "selection", line 302 is the chat, line 341 the recovery chat
IterationEvents(recovered) ==
    <<Event("retrieval", 0), Event("selection", 0), Event("chat", 0)>>
    \o (IF recovered THEN <<Event("chat", 0)>> ELSE <<>>)

\* the events of a dispatch loop that appended the result before the call
CallEvents_result_first(i, b) ==
    <<Event("tool_message", i)>> \o (IF b.host.req.action # "" THEN <<Event("dispatch", i)>> ELSE <<>>)

\* lines 478-805 for call number i, whose branch gave b: _call_mcp_tool when
\* the branch made the call, memory.add("tool", ...) for the synchronising
\* read (613, 685), memory.add("tool", ...) for the call (506, 805)
CallEvents(i, b) ==
    (IF b.host.req.action # "" THEN <<Event("dispatch", i)>> ELSE <<>>)
    \o (IF b.sync THEN <<Event("tool_message", i)>> ELSE <<>>)
    \o <<Event("tool_message", i)>>

\* selected_tools and offered are kept as the sets of the names in the lists
NewTurn(selected_tools, answer) ==
    [selected_tools |-> Range(selected_tools),
     offered |-> answer.offered,
     recovered |-> answer.recovered,
     stop_first |-> answer.stop_first,
     content |-> answer.content,
     tool_calls |-> answer.tool_calls,
     index |-> 1,
     iteration_had_tool_error |-> FALSE,
     iteration_had_non_edit_progress |-> FALSE,
     iteration_tool_names |-> <<>>,
     iteration_changed_files |-> 0,
     edited_files_this_iteration |-> {},
     events |-> IterationEvents(answer.recovered)]

NoTurn ==
    [NewTurn(<<>>, [content |-> MsgEmpty, tool_calls |-> <<>>, offered |-> {}, recovered |-> FALSE,
                    stop_first |-> FALSE])
     EXCEPT !.events = <<>>]

\* a tool result: the envelope's "ok", and its "result" mapping's "ok" and "deferred"
ToolResult(ok, nested_ok, deferred) == [ok |-> ok, nested_ok |-> nested_ok, deferred |-> deferred]
_deferred_tool_result == ToolResult(TRUE, TRUE, TRUE)
NoToolResult == ToolResult(FALSE, FALSE, FALSE)

NoLast ==
    [valid |-> FALSE, tool |-> "", arguments |-> NoArgs, path |-> EmptyStr, sent |-> "",
     executed |-> FALSE, res |-> NoToolResult, sync |-> FALSE, existed |-> FALSE,
     generation |-> 0, read_generation |-> -1, wasRead |-> FALSE, offered |-> {}]

NoResult == [status |-> "", final_message |-> MsgEmpty]

(***************************************************************************)
(* One pass of the dispatch loop (lines 478-819)                           *)
(***************************************************************************)
\* _call_mcp_tool: one Tool Host process on the request; req is what it was given
_call_mcp_tool(tool_name, arguments, f, link, env) ==
    LET Ran(req) == [req |-> req] @@ hostMain(req, f, link, env.rootOk, env.strict, env.node, env.outcome)
    IN  Ran(Request("object", "call_tool", tool_name, arguments, TRUE))

\* no Tool Host process
NoAnswer(f) == [req |-> NoRequest, out |-> IdleOut, run |-> NoRun, nfs |-> f]

\* the parsed envelope of a Tool Host process
Parsed(h) == ToolResult(h.out.ok, h.out.ok /\ h.run.ok, FALSE)

\* what a branch did: the run state, the Tool Host process, tool_result, and
\* whether the process was the synchronising read_file
Outcome(r, h, res, sync) == [run |-> r, host |-> h, res |-> res, sync |-> sync]

\* _text_signature: str(abs(hash(value))); equal texts give equal signatures
\* and different texts are taken to give different ones
_text_signature(value) == value

_should_run_validation(changed_since_validation, validation_runs) ==
    IF validation_runs = 0
    THEN /\ \E p \in changed_since_validation : EndsWith(p, "html")
         /\ \E p \in changed_since_validation : EndsWith(p, "css")
         /\ \E p \in changed_since_validation : EndsWith(p, "js")
    ELSE Cardinality(changed_since_validation) >= 1

_should_run_tests(changed_since_tests, tests_runs, last_validation_ok, validation_ever_passed) ==
    IF ~last_validation_ok /\ ~validation_ever_passed THEN FALSE
    ELSE IF tests_runs = 0
        THEN (\E p \in changed_since_tests : IsTestPath(p)) /\ Cardinality(changed_since_tests) >= 2
    ELSE Cardinality(changed_since_tests) >= 1

\* lines 520-544 alone: validate_web_app without the check of lines 509-519
ValidateBranch_unguarded(r, arguments, f, link, env) ==
    LET Defer ==
            Outcome([r EXCEPT !.consecutive_validation_deferrals = @ + 1,
                              !.total_validation_deferrals = @ + 1],
                    NoAnswer(f), _deferred_tool_result, FALSE)
        Ran(h) ==
            Outcome([r EXCEPT !.validation_runs = @ + 1,
                              !.consecutive_validation_deferrals = 0,
                              !.last_validation_ok = Parsed(h).nested_ok,
                              !.validation_ever_passed = @ \/ Parsed(h).nested_ok,
                              !.changed_since_validation = IF Parsed(h).nested_ok THEN {} ELSE @],
                    h, Parsed(h), FALSE)
    IN  IF ~(\/ _should_run_validation(r.changed_since_validation, r.validation_runs)
             \/ r.consecutive_validation_deferrals >= 2
             \/ r.total_validation_deferrals >= max_total_deferrals) THEN Defer
        ELSE The({ Ran(h) : h \in {_call_mcp_tool("validate_web_app", arguments, f, link, env)} })

\* lines 509-544 with the test of line 526 one deferral later
ValidateBranch_third(r, arguments, f, link, env) ==
    LET Defer ==
            Outcome([r EXCEPT !.consecutive_validation_deferrals = @ + 1,
                              !.total_validation_deferrals = @ + 1],
                    NoAnswer(f), _deferred_tool_result, FALSE)
        Ran(h) ==
            Outcome([r EXCEPT !.validation_runs = @ + 1,
                              !.consecutive_validation_deferrals = 0,
                              !.last_validation_ok = Parsed(h).nested_ok,
                              !.validation_ever_passed = @ \/ Parsed(h).nested_ok,
                              !.changed_since_validation = IF Parsed(h).nested_ok THEN {} ELSE @],
                    h, Parsed(h), FALSE)
    IN  IF r.started_from_empty /\ r.substantive_edit_count = 0 THEN Defer
        ELSE IF ~(\/ _should_run_validation(r.changed_since_validation, r.validation_runs)
                  \/ r.consecutive_validation_deferrals >= 3
                  \/ r.total_validation_deferrals >= max_total_deferrals) THEN Defer
        ELSE The({ Ran(h) : h \in {_call_mcp_tool("validate_web_app", arguments, f, link, env)} })

\* lines 509-544
ValidateBranch(r, arguments, f, link, env) ==
    LET Defer ==
            Outcome([r EXCEPT !.consecutive_validation_deferrals = @ + 1,
                              !.total_validation_deferrals = @ + 1],
                    NoAnswer(f), _deferred_tool_result, FALSE)
        Ran(h) ==
            Outcome([r EXCEPT !.validation_runs = @ + 1,
                              !.consecutive_validation_deferrals = 0,
                              !.last_validation_ok = Parsed(h).nested_ok,
                              !.validation_ever_passed = @ \/ Parsed(h).nested_ok,
                              !.changed_since_validation = IF Parsed(h).nested_ok THEN {} ELSE @],
                    h, Parsed(h), FALSE)
    IN  IF r.started_from_empty /\ r.substantive_edit_count = 0 THEN Defer
        ELSE IF ~(\/ _should_run_validation(r.changed_since_validation, r.validation_runs)
                  \/ r.consecutive_validation_deferrals >= 2
                  \/ r.total_validation_deferrals >= max_total_deferrals) THEN Defer
        ELSE The({ Ran(h) : h \in {_call_mcp_tool("validate_web_app", arguments, f, link, env)} })

\* lines 545-578
TestsBranch(r, arguments, f, link, env) ==
    LET Defer ==
            Outcome([r EXCEPT !.consecutive_test_deferrals = @ + 1,
                              !.total_test_deferrals = @ + 1],
                    NoAnswer(f), _deferred_tool_result, FALSE)
        Ran(h) ==
            Outcome([r EXCEPT !.tests_runs = @ + 1,
                              !.consecutive_test_deferrals = 0,
                              !.changed_since_tests = {}],
                    h, Parsed(h), FALSE)
    IN  IF r.started_from_empty /\ r.substantive_edit_count = 0 THEN Defer
        ELSE IF ~(\/ _should_run_tests(r.changed_since_tests, r.tests_runs,
                                       r.last_validation_ok, r.validation_ever_passed)
                  \/ r.consecutive_test_deferrals >= 2
                  \/ r.total_test_deferrals >= max_total_deferrals) THEN Defer
        ELSE The({ Ran(h) : h \in {_call_mcp_tool("run_unit_tests", arguments, f, link, env)} })

\* needs_sync_read (lines 595-599 and 667-671)
NeedsSyncRead(r, relative_path, f, link) ==
    /\ IsFile(f, _resolve_workspace_file(relative_path, link))
    /\ \/ Get(r.file_read_generation, relative_path, -1) < Get(r.file_generation, relative_path, 0)
       \/ Get(r.file_read_generation, relative_path, -1) < 0

\* lines 601-636 and 673-709: read the file through the Tool Host, note the
\* read when it succeeded, inject the sync prompt, defer the edit
SyncRead(r, relative_path, f, link, env) ==
    LET Read(h) ==
            Outcome(IF Parsed(h).nested_ok
                    THEN [r EXCEPT !.file_read_generation =
                                        Put(@, relative_path, Get(r.file_generation, relative_path, 0))]
                    ELSE r,
                    h, _deferred_tool_result, TRUE)
    IN  The({ Read(h) :
              h \in {_call_mcp_tool("read_file",
                                    ("relative_path" :> VPath(relative_path)) @@ ("max_bytes" :> VInt(200000)),
                                    f, link, env)} })

\* lines 594-650 alone: create_file without the test of line 586
CreateFileBranch_always(r, arguments, f, link, env) ==
    LET relative_path == Strip(StrArg(arguments, "relative_path", EmptyStr))
        signature == _text_signature(TextArg(arguments, "content", ""))
        Wrote(h) ==
            Outcome(IF Parsed(h).nested_ok /\ Truthy(relative_path)
                    THEN [r EXCEPT !.file_generation =
                                        Put(@, relative_path, Get(r.file_generation, relative_path, 0) + 1),
                                   !.last_create_file_signature = Put(@, relative_path, signature)]
                    ELSE r,
                    h, Parsed(h), FALSE)
    IN  IF NeedsSyncRead(r, relative_path, f, link) /\ Truthy(relative_path)
        THEN SyncRead(r, relative_path, f, link, env)
        ELSE The({ Wrote(h) : h \in {_call_mcp_tool("create_file", arguments, f, link, env)} })

\* lines 579-650
CreateFileBranch(r, arguments, f, link, env) ==
    LET relative_path == Strip(StrArg(arguments, "relative_path", EmptyStr))
        signature == _text_signature(TextArg(arguments, "content", ""))
        Wrote(h) ==
            Outcome(IF Parsed(h).nested_ok /\ Truthy(relative_path)
                    THEN [r EXCEPT !.file_generation =
                                        Put(@, relative_path, Get(r.file_generation, relative_path, 0) + 1),
                                   !.last_create_file_signature = Put(@, relative_path, signature)]
                    ELSE r,
                    h, Parsed(h), FALSE)
    IN  IF /\ Truthy(relative_path)
           /\ relative_path \in DOMAIN r.last_create_file_signature
           /\ r.last_create_file_signature[relative_path] = signature
        THEN Outcome(r, NoAnswer(f), _deferred_tool_result, FALSE)
        ELSE IF NeedsSyncRead(r, relative_path, f, link) /\ Truthy(relative_path)
        THEN SyncRead(r, relative_path, f, link, env)
        ELSE The({ Wrote(h) : h \in {_call_mcp_tool("create_file", arguments, f, link, env)} })

\* lines 651-716
StructuredEditBranch(tool_name, r, arguments, f, link, env) ==
    LET relative_path == Strip(StrArg(arguments, "relative_path", EmptyStr))
        structured_signature == <<tool_name, arguments>>
        Edited(h) ==
            Outcome(IF Parsed(h).nested_ok /\ Truthy(relative_path)
                    THEN [r EXCEPT !.file_generation =
                                        Put(@, relative_path, Get(r.file_generation, relative_path, 0) + 1),
                                   !.last_structured_edit_signature =
                                        Put(@, relative_path, structured_signature)]
                    ELSE r,
                    h, Parsed(h), FALSE)
    IN  IF /\ Truthy(relative_path)
           /\ relative_path \in DOMAIN r.last_structured_edit_signature
           /\ r.last_structured_edit_signature[relative_path] = structured_signature
        THEN Outcome(r, NoAnswer(f), _deferred_tool_result, FALSE)
        ELSE IF NeedsSyncRead(r, relative_path, f, link) /\ Truthy(relative_path)
        THEN SyncRead(r, relative_path, f, link, env)
        ELSE The({ Edited(h) : h \in {_call_mcp_tool(tool_name, arguments, f, link, env)} })

\* lines 717-718
OtherBranch(tool_name, r, arguments, f, link, env) ==
    LET Called(h) == Outcome(r, h, Parsed(h), FALSE)
    IN  The({ Called(h) : h \in {_call_mcp_tool(tool_name, arguments, f, link, env)} })

\* the if/elif chain of lines 509-718
Branch(tool_name, r, arguments, f, link, env) ==
    CASE tool_name = "validate_web_app" -> ValidateBranch(r, arguments, f, link, env)
      [] tool_name = "run_unit_tests" -> TestsBranch(r, arguments, f, link, env)
      [] tool_name = "create_file" -> CreateFileBranch(r, arguments, f, link, env)
      [] tool_name \in StructuredEditTools -> StructuredEditBranch(tool_name, r, arguments, f, link, env)
      [] OTHER -> OtherBranch(tool_name, r, arguments, f, link, env)

\* one more entry of tool_trace, as _completion_gaps will read it
TraceAppend(trace, tool_name, arguments, res) ==
    [created_files |->
        trace.created_files
        \cup (IF tool_name = "create_file" /\ Truthy(Strip(StrArg(arguments, "relative_path", EmptyStr)))
              THEN {Strip(StrArg(arguments, "relative_path", EmptyStr))} ELSE {}),
     validated_ok |->
        trace.validated_ok \/ (tool_name = "validate_web_app" /\ res.nested_ok /\ ~res.deferred),
     tests_ok_files |->
        trace.tests_ok_files
        \cup (IF tool_name = "run_unit_tests" /\ res.nested_ok
                 /\ Truthy(Strip(StrArg(arguments, "test_file", EmptyStr)))
              THEN {Strip(StrArg(arguments, "test_file", EmptyStr))} ELSE {})]

\* the paths of "created_or_verified" after _normalize_workspace_relative_path
CreatedOrVerified(arguments, link) ==
    LET Under(dir) ==
            {_normalize_workspace_relative_path(Abs(Append(dir, ScaffoldFiles[i])), link) :
                i \in 1..Len(ScaffoldFiles)}
    IN  Under(resolve_path_in_workspace(Strip(StrArg(arguments, "app_dir", Rel(<<"concept_app">>))), link).path)
        \ {DotStr}

\* _extract_tool_feedback returns an entry
FeedbackTools ==
    EditTools \cup {"read_file", "list_directory", "scaffold_web_app", "validate_web_app",
                    "run_unit_tests", "plan_web_build"}

\* lines 483-507: the cap on the files edited in one iteration
MaxFilesDeferred(tool_name, arguments, t) ==
    /\ tool_name \in EditTools
    /\ Truthy(Strip(StrArg(arguments, "relative_path", EmptyStr)))
    /\ Strip(StrArg(arguments, "relative_path", EmptyStr)) \notin t.edited_files_this_iteration
    /\ Cardinality(t.edited_files_this_iteration) >= max_files_per_iteration

\* lines 720-819: what the result means for the run and for the iteration
Track(tool_name, arguments, b, t, link) ==
    LET relative_path == Strip(StrArg(arguments, "relative_path", EmptyStr))
        edited == /\ tool_name \in EditTools /\ Truthy(relative_path)
                  /\ b.res.nested_ok /\ ~b.res.deferred
        scaffolded == tool_name = "scaffold_web_app" /\ b.res.nested_ok
        read == tool_name = "read_file" /\ Truthy(relative_path)
        planned == tool_name = "plan_web_build" /\ b.res.nested_ok
        listed == tool_name = "list_directory" /\ b.res.nested_ok
        changed == (IF edited THEN {relative_path} ELSE {})
                   \cup (IF scaffolded THEN CreatedOrVerified(arguments, link) ELSE {})
    IN  [run |->
            [b.run EXCEPT
                !.changed_since_validation = @ \cup changed,
                !.changed_since_tests = @ \cup changed,
                !.substantive_edit_count = IF edited THEN @ + 1 ELSE @,
                !.file_read_generation =
                    IF read THEN Put(@, relative_path, Get(b.run.file_generation, relative_path, 0)) ELSE @,
                !.phase_plan_ready = @ \/ planned,
                !.tool_trace = TraceAppend(@, tool_name, arguments, b.res)],
         turn |->
            [t EXCEPT
                !.iteration_changed_files = IF edited \/ scaffolded THEN @ + 1 ELSE @,
                !.edited_files_this_iteration = @ \cup changed,
                !.iteration_had_non_edit_progress = @ \/ edited \/ scaffolded \/ read \/ planned \/ listed,
                !.iteration_tool_names = Append(@, tool_name),
                !.iteration_had_tool_error = @ \/ (tool_name \in FeedbackTools /\ ~b.res.nested_ok)]]

\* The body of the for loop on the call at turn.index.  read is filesRead.
\* The normalised call, the outcome of its branch and what is tracked of it
\* are each computed once.
ProcessCall(r, t, f, link, env, read) ==
    LET Observed(n, b, rt) ==
            LET relative_path == Strip(StrArg(n.arguments, "relative_path", EmptyStr))
            IN  [run |-> rt.run,
                 turn |-> [rt.turn EXCEPT !.index = @ + 1, !.events = @ \o CallEvents(t.index, b)],
                 host |-> b.host,
                 last |-> [valid |-> TRUE, tool |-> n.name, arguments |-> n.arguments,
                           path |-> relative_path,
                           sent |-> b.host.req.tool,
                           executed |-> b.host.run.invoked,
                           res |-> b.res, sync |-> b.sync,
                           existed |-> IsFile(f, _resolve_workspace_file(relative_path, link)),
                           generation |-> Get(r.file_generation, relative_path, 0),
                           read_generation |-> Get(r.file_read_generation, relative_path, -1),
                           wasRead |-> _resolve_workspace_file(relative_path, link) \in read,
                           offered |-> t.offered]]
        Processed(n, b) ==
            The({ Observed(n, b, rt) : rt \in {Track(n.name, n.arguments, b, t, link)} })
        Normalized(n) ==
            IF MaxFilesDeferred(n.name, n.arguments, t)
            THEN Observed(n, Outcome(r, NoAnswer(f), _deferred_tool_result, FALSE),
                          [run |-> [r EXCEPT !.tool_trace =
                                        TraceAppend(@, n.name, n.arguments, _deferred_tool_result)],
                           turn |-> [t EXCEPT !.iteration_tool_names = Append(@, n.name)]])
            ELSE The({ Processed(n, b) : b \in {Branch(n.name, r, n.arguments, f, link, env)} })
    IN  The({ Normalized(n) : n \in {_normalize_tool_call(t.tool_calls[t.index], link)} })

(***************************************************************************)
(* _completion_gaps (the task does not speak of notes)                     *)
(***************************************************************************)
_completion_gaps(r) ==
    (IF r.iteration < min_iterations THEN {"run more phased steps"} ELSE {})
    \cup (IF \E p \in r.tool_trace.created_files : EndsWith(p, "html") THEN {} ELSE {"html"})
    \cup (IF \E p \in r.tool_trace.created_files : EndsWith(p, "css") THEN {} ELSE {"css"})
    \cup (IF \E p \in r.tool_trace.created_files : EndsWith(p, "js") THEN {} ELSE {"js"})
    \cup (IF \E p \in r.tool_trace.created_files : IsTestPath(p) THEN {} ELSE {"test file"})
    \cup (IF r.tool_trace.validated_ok THEN {} ELSE {"validate_web_app"})
    \cup (IF \E p \in r.tool_trace.tests_ok_files : IsTestPath(p) THEN {} ELSE {"run_unit_tests"})

(***************************************************************************)
(* The history of the run, as an observer of the Tool Host processes and   *)
(* of the model's answers would write it down.  run() reads none of it.    *)
(***************************************************************************)
\* what a file of the workspace is, by its name
KindsOf(p) ==
    LET name == Rel(<<p[Len(p)]>>)
    IN  {k \in {"html", "css", "js"} : EndsWith(name, k)} \cup (IF IsTestPath(name) THEN {"test"} ELSE {})

\* edited: an edit tool ran in a Tool Host process and succeeded.
\* kinds: the kinds of the files Tool Host processes have written.
\* changed / testChanged: a file / a test file was written since the last
\* validate_web_app / run_unit_tests process.  valStreak, valTotal,
\* testStreak, testTotal: deferred results in a row (up to 2) and in all (up
\* to max_total_deferrals).  validated, tested: a validate_web_app /
\* run_unit_tests process reported ok.  created: the kinds of the files
\* written by create_file processes that succeeded.  planOnly: every answer
\* so far held the one call plan_web_build; ended: how many iterations have
\* ended while that was so.  wroteNow: a file was written in this iteration;
\* sinceWrite: how many iterations ago a file was last written, among the
\* iterations that have ended (1: in the last one; max_repeated_signatures + 1:
\* longer ago than max_repeated_signatures iterations, or never).
\* lastCreate: for each relative_path a create_file process was given and
\* wrote, the content of the last such process.
NoHistory ==
    [edited |-> FALSE, kinds |-> {}, changed |-> FALSE, valStreak |-> 0, valTotal |-> 0,
     validated |-> FALSE, testChanged |-> FALSE, testStreak |-> 0, testTotal |-> 0,
     tested |-> FALSE, created |-> {}, planOnly |-> TRUE, ended |-> 0,
     wroteNow |-> FALSE, sinceWrite |-> max_repeated_signatures + 1, writes |-> << >>,
     lastCreate |-> << >>]

\* hist.now is the history; hist.was is what it was before the call that the
\* dispatch loop handled last
NoHist == [was |-> NoHistory, now |-> NoHistory]

\* the history after the dispatch loop has handled one call: s is what
\* ProcessCall gave
Noted(h, s) ==
    LET sent == s.host.req.tool
        succeeded == s.host.out.ok /\ s.host.run.ok
        written == s.host.run.wr \ {LogFile}
        kinds == UNION {KindsOf(p) : p \in written}
    IN  [h EXCEPT
            !.edited = @ \/ (sent \in EditTools /\ succeeded),
            !.kinds = @ \cup kinds,
            !.changed = IF sent = "validate_web_app" THEN FALSE ELSE @ \/ written # {},
            !.valStreak = IF s.last.tool # "validate_web_app" THEN @
                          ELSE IF s.last.res.deferred THEN Min(@ + 1, 2) ELSE 0,
            !.valTotal = IF s.last.tool = "validate_web_app" /\ s.last.res.deferred
                         THEN Min(@ + 1, max_total_deferrals) ELSE @,
            !.validated = @ \/ (sent = "validate_web_app" /\ succeeded),
            !.testChanged = IF sent = "run_unit_tests" THEN FALSE ELSE @ \/ "test" \in kinds,
            !.testStreak = IF s.last.tool # "run_unit_tests" THEN @
                           ELSE IF s.last.res.deferred THEN Min(@ + 1, 2) ELSE 0,
            !.testTotal = IF s.last.tool = "run_unit_tests" /\ s.last.res.deferred
                          THEN Min(@ + 1, max_total_deferrals) ELSE @,
            !.tested = @ \/ (sent = "run_unit_tests" /\ succeeded),
            !.created = @ \cup (IF sent = "create_file" /\ succeeded THEN kinds ELSE {}),
            !.wroteNow = @ \/ written # {},
            !.writes = IF sent \in EditTools \cup {"scaffold_web_app"} /\ succeeded
                       THEN [p \in DOMAIN @ \cup written |->
                                (IF p \in DOMAIN @ THEN @[p] ELSE 0) + (IF p \in written THEN 1 ELSE 0)]
                       ELSE @,
            !.lastCreate = IF sent = "create_file" /\ succeeded
                           THEN Put(@, Strip(StrArg(s.host.req.args, "relative_path", EmptyStr)),
                                    TextArg(s.host.req.args, "content", ""))
                           ELSE @]

\* the history after an answer with the calls tool_calls
Replied(h, tool_calls) ==
    [h EXCEPT !.planOnly = @ /\ Len(tool_calls) = 1 /\ tool_calls[1].name = "plan_web_build",
              !.ended = IF Len(tool_calls) = 1 /\ tool_calls[1].name = "plan_web_build" THEN @ ELSE 0]

\* the history after the iteration has ended
Ended(h) ==
    [h EXCEPT !.ended = IF h.planOnly THEN Min(@ + 1, max_no_progress_iterations) ELSE 0,
              !.wroteNow = FALSE,
              !.sinceWrite = IF h.wroteNow THEN 1 ELSE Min(@ + 1, max_repeated_signatures + 1)]

(***************************************************************************)
(* The actions of run()                                                    *)
(***************************************************************************)
\* a workspace that holds a small site already
SiteWorkspace ==
    (<<"ws", "index.html">> :> File("html")) @@ (<<"ws", "styles.css">> :> File("plain"))
    @@ (<<"ws", "app.js">> :> File("plain")) @@ EmptyWorkspace

\* lines 70-93: memory = SessionMemory(); memory.add("system", ...);
\* memory.add("user", task)
NewTranscript == [head |-> <<"system", "user">>, tool_calls |-> <<>>, appended |-> <<>>]

\* SessionMemory.add("assistant", content, tool_calls=tool_calls): the message
\* holds the list itself
add(messages, tool_calls) == [messages EXCEPT !.tool_calls = tool_calls, !.appended = tool_calls]

LoopStart(scenarios) ==
    /\ scenario \in scenarios
    /\ fs \in {EmptyWorkspace, SiteWorkspace}
    /\ hasLink = FALSE
    /\ hostIn = NoRequest /\ hostOut = IdleOut /\ hostRun = NoRun /\ hostCalls = 0
    /\ lpc = "chat"
    /\ run = NewRun(_is_workspace_empty(fs))
    /\ turn = NoTurn
    /\ last = NoLast
    /\ filesRead = {}
    /\ runResult = NoResult
    /\ hist = NoHist
    /\ transcript = NewTranscript

LoopInit == LoopStart(WideScenarios)
LoopLiveInit == LoopStart(NarrowScenarios)

\* the loop variables when no run is modelled
LoopQuiet ==
    /\ scenario = "talk" /\ lpc = "chat" /\ run = NewRun(TRUE) /\ turn = NoTurn
    /\ last = NoLast /\ filesRead = {} /\ runResult = NoResult /\ hist = NoHist
    /\ transcript = NewTranscript

\* A model with a wide vocabulary answers MaxIterations times.
MayIterate ==
    /\ scenario \in WideScenarios => run.iteration < MaxIterations
    /\ scenario \in ScriptedScenarios => run.iteration < Answering(scenario)

\* line 136.  The counter is kept up to min_iterations, the largest value it
\* is compared with; from there on it stands for "min_iterations or more".
\* (Where the answers are counted beyond that, it is kept up to their number.)
NextIteration(r) ==
    [r EXCEPT !.iteration =
        Min(@ + 1, IF scenario \in ScriptedScenarios THEN Max(min_iterations, MaxScriptedIterations)
                   ELSE min_iterations)]

\* what the chat of this iteration can give: the tools selected and the answer
Turns ==
    UNION { {NewTurn(selected_tools, a) : a \in Chat(scenario, selected_tools)} :
            selected_tools \in
              { SelectTools(reranked, run.phase_plan_ready, _is_workspace_empty(fs),
                            run.plan_loop_iterations) : reranked \in RerankedSamples } }

\* lines 360-449: the answer holds no tool call
NoToolCallVerdict(content, r) ==
    IF _is_stop_message(content) THEN "stopped_by_agent"
    ELSE IF content.manual_verify THEN "continue"
    ELSE IF _claims_success_without_evidence(content, r.last_validation_ok, r.tests_runs) THEN "continue"
    ELSE IF _is_done_message(content)
        THEN IF _completion_gaps(r) # {} THEN "continue" ELSE "completed"
    ELSE IF _looks_like_completion_without_done(content)
        THEN IF _completion_gaps(r) = {} THEN "completed" ELSE "continue"
    ELSE "continue"

\* Lines 135-449 when the answer (after recovery) holds no tool call: the
\* locals of the dispatch loop are not reached.
LoopNoToolCalls ==
    /\ lpc = "chat"
    /\ MayIterate
    /\ \E t \in Turns :
          /\ t.tool_calls = <<>>
          /\ turn' = [NoTurn EXCEPT !.selected_tools = t.selected_tools, !.content = t.content,
                                     !.recovered = t.recovered, !.stop_first = t.stop_first,
                                     !.events = t.events]
          /\ run' = NextIteration(run)
          /\ hist' = [hist EXCEPT !.now = Replied(@, t.tool_calls)]
          /\ transcript' = add(transcript, t.tool_calls)
          /\ \E verdict \in {NoToolCallVerdict(t.content, NextIteration(run))} :
                IF verdict = "continue"
                THEN lpc' = "chat" /\ UNCHANGED runResult
                ELSE /\ lpc' = "returned"
                     /\ runResult' = [status |-> verdict,
                                      final_message |-> IF verdict = "completed"
                                                       THEN [t.content EXCEPT !.prefix = "DONE:"]
                                                       ELSE t.content]
    /\ UNCHANGED <<scenario, last, filesRead, hostVars, gwVars, unitVars>>

\* Lines 135-476 when the answer holds tool calls: up to the dispatch loop.
\* plan_loop_iterations is kept up to 2, the value it is compared with.
LoopToolCalls ==
    /\ lpc = "chat"
    /\ MayIterate
    /\ \E t \in Turns :
          /\ t.tool_calls # <<>>
          /\ turn' = t
          /\ hist' = [hist EXCEPT !.now = Replied(@, t.tool_calls)]
          /\ transcript' = add(transcript, t.tool_calls)
          /\ \E planned \in {(\E i \in DOMAIN t.tool_calls : t.tool_calls[i].name = "plan_web_build")
                              /\ (\E j \in DOMAIN t.tool_calls : t.tool_calls[j].name = "read_file")} :
                run' = [NextIteration(run) EXCEPT
                           !.phase_plan_ready = @ \/ planned,
                           !.plan_loop_iterations =
                               IF run.phase_plan_ready \/ planned THEN 0 ELSE Min(@ + 1, 2)]
    /\ lpc' = "dispatch"
    /\ UNCHANGED <<scenario, last, filesRead, runResult, hostVars, gwVars, unitVars>>

\* The planner, the reranker or the model client raises (a connection error,
\* an answer without a message object): run() has no handler for it.
LoopRaise ==
    /\ lpc = "chat"
    /\ lpc' = "raised"
    /\ UNCHANGED <<scenario, run, turn, last, filesRead, runResult, hist, transcript, hostVars, gwVars, unitVars>>

\* lines 479-480 with the cap one call too high
WithinCap_one_more(index) == index <= max_tool_calls_per_iteration + 1

\* lines 479-480: the call number index (counted from 1) is not beyond the cap
WithinCap(index) == index <= max_tool_calls_per_iteration

\* One pass of the for loop of lines 478-819.
LoopDispatch ==
    /\ lpc = "dispatch"
    /\ turn.index <= Len(turn.tool_calls)
    /\ WithinCap(turn.index)
    /\ \E env \in EnvsFor(Request("object", "call_tool",
                                    CanonicalName(turn.tool_calls[turn.index].name), NoArgs, TRUE)) :
          \E s \in {ProcessCall(run, turn, fs, hasLink, env, filesRead)} :
             /\ run' = s.run
             /\ turn' = s.turn
             /\ last' = s.last
             /\ hist' = [was |-> hist.now, now |-> Noted(hist.now, s)]
             \* _normalize_tool_call writes into the arguments of the call, the
             \* object the appended message holds
             /\ transcript' = [transcript EXCEPT !.tool_calls[turn.index].arguments = s.last.arguments]
             /\ fs' = s.host.nfs
             /\ hostIn' = s.host.req
             /\ hostOut' = s.host.out
             /\ hostRun' = s.host.run
             /\ filesRead' = filesRead \cup
                    (IF s.host.req.tool = "read_file" /\ s.host.out.ok /\ s.host.run.ok
                     THEN s.host.run.acc ELSE {})
    /\ UNCHANGED <<lpc, scenario, runResult, hasLink, hostCalls, gwVars, unitVars>>

\* json.dumps(sorted(iteration_tool_names)): how often each name occurs
Signature(names) == [n \in Range(names) |-> Cardinality({i \in DOMAIN names : names[i] = n})]

\* lines 856-887, the no-progress test taken one iteration too late
StopsRun_late(recent, iteration_changed_files, no_progress) ==
    \/ /\ Len(recent) >= max_repeated_signatures
       /\ Cardinality(Range(recent)) = 1
       /\ iteration_changed_files = 0
    \/ no_progress > max_no_progress_iterations

\* lines 856-887: the two tests that end the run with stopped_no_progress
StopsRun(recent, iteration_changed_files, no_progress) ==
    \/ /\ Len(recent) >= max_repeated_signatures
       /\ Cardinality(Range(recent)) = 1
       /\ iteration_changed_files = 0
    \/ no_progress >= max_no_progress_iterations

\* Lines 821-887: the dispatch loop is over.  The locals of the iteration are
\* dead from here on (the next iteration assigns them before it reads them);
\* only the tool list and the message are kept.
LoopEndIteration ==
    /\ lpc = "dispatch"
    /\ turn.index > Len(turn.tool_calls) \/ ~WithinCap(turn.index)
    /\ \E no_progress \in {IF turn.iteration_changed_files = 0 /\ ~turn.iteration_had_non_edit_progress
                           THEN run.no_progress_iterations + 1 ELSE 0} :
       \E recent \in {LET appended == Append(run.recent_tool_call_signatures,
                                             Signature(turn.iteration_tool_names))
                      IN  IF Len(appended) > max_repeated_signatures
                          THEN SubSeq(appended, Len(appended) - max_repeated_signatures + 1, Len(appended))
                          ELSE appended} :
          /\ run' = [run EXCEPT !.no_progress_iterations = no_progress,
                                !.recent_tool_call_signatures = recent]
          /\ IF StopsRun(recent, turn.iteration_changed_files, no_progress)
             THEN /\ lpc' = "returned"
                  /\ runResult' = [status |-> "stopped_no_progress", final_message |-> MsgStop]
             ELSE lpc' = "chat" /\ UNCHANGED runResult
    /\ turn' = [NoTurn EXCEPT !.selected_tools = turn.selected_tools, !.content = turn.content,
                               !.recovered = turn.recovered, !.stop_first = turn.stop_first]
    /\ last' = NoLast
    /\ hist' = [was |-> NoHistory, now |-> Ended(hist.now)]
    /\ transcript' = add(transcript, <<>>)
    /\ hostIn' = NoRequest /\ hostOut' = IdleOut /\ hostRun' = NoRun
    /\ UNCHANGED <<scenario, filesRead, fs, hasLink, hostCalls, gwVars, unitVars>>

LoopNext ==
    LoopRaise \/ LoopEndIteration \/ LoopNoToolCalls \/ LoopToolCalls \/ LoopDispatch

(***************************************************************************)
(* The specifications                                                      *)
(***************************************************************************)
InitHost == HostInit /\ GatewayInit /\ LoopQuiet /\ UnitQuiet
SpecHost == InitHost /\ [][HostNext]_vars

GatewayNext ==
    \/ \E c \in ChatIds :
          \/ ChatAdmit(c) \/ ChatSendHeaders(c) \/ ChatSpawn(c) \/ ChatSpawnFails(c)
          \/ ChatSetSlot(c) \/ ChatRelay(c) \/ ChatReadResult(c) \/ ChatClearSlot(c)
          \/ ChatNoResult(c) \/ ChatReplayResult(c) \/ ChatFinish(c)
          \/ ChildPrints(c) \/ ChildExits(c) \/ ChildCrashes(c)
    \/ \E s \in StopIds : StopCheck(s) \/ StopTerminate(s)

HostQuiet ==
    /\ fs = EmptyWorkspace /\ hasLink = FALSE /\ hostIn = NoRequest
    /\ hostOut = IdleOut /\ hostRun = NoRun /\ hostCalls = 0

InitGateway == HostQuiet /\ GatewayInit /\ LoopQuiet /\ UnitQuiet
SpecGateway == InitGateway /\ [][GatewayNext]_vars

InitLoop == LoopInit /\ GatewayInit /\ UnitQuiet
SpecLoop == InitLoop /\ [][LoopNext]_vars

\* run() is one sequential program: whenever it can take a step, it does.
InitLoopLive == LoopLiveInit /\ GatewayInit /\ UnitQuiet

InitDisk == DiskInit /\ MemQuiet /\ PrunerQuiet /\ SelectQuiet /\ RangeQuiet /\ HostQuiet /\ GatewayInit /\ LoopQuiet
SpecDisk == InitDisk /\ [][DiskNext]_vars

InitMemory == MemInit /\ DiskQuiet /\ PrunerQuiet /\ SelectQuiet /\ RangeQuiet /\ HostQuiet /\ GatewayInit /\ LoopQuiet
SpecMemory == InitMemory /\ [][MemNext]_vars

InitPruner == PrunerInit /\ DiskQuiet /\ MemQuiet /\ SelectQuiet /\ RangeQuiet /\ HostQuiet /\ GatewayInit /\ LoopQuiet
SpecPruner == InitPruner /\ [][PrunerNext]_vars

InitSelect ==
    SelectInit /\ DiskQuiet /\ MemQuiet /\ PrunerQuiet /\ RangeQuiet /\ HostQuiet /\ GatewayInit /\ LoopQuiet
SpecSelect == InitSelect /\ [][SelectNext]_vars

InitRange ==
    RangeInit /\ DiskQuiet /\ MemQuiet /\ PrunerQuiet /\ SelectQuiet /\ HostQuiet /\ GatewayInit /\ LoopQuiet
SpecRange == InitRange /\ [][RangeNext]_vars

\* the scripted models
InitBuild == LoopStart(ScriptedScenarios) /\ GatewayInit /\ UnitQuiet
SpecBuild == InitBuild /\ [][LoopNext]_vars
SpecLoopLive == InitLoopLive /\ [][LoopNext]_vars /\ WF_vars(LoopNext)

(***************************************************************************)
(* Claims about the Tool Host (checked under SpecHost).                    *)
(***************************************************************************)
HostAnswered == hostIn # NoRequest
IsToolCall == hostIn.raw = "object" /\ hostIn.action = "call_tool" /\ hostIn.argsIsObject
InitiallyOutside(p) == p \in DOMAIN OutsideFs /\ fs[p] = OutsideFs[p]

\* C1: every path a handler reads or writes lies in the workspace, and after
\* any sequence of tool calls no file outside the workspace root has been
\* created or modified.
C1_NothingOutsideWorkspaceTouched ==
    /\ \A p \in hostRun.acc \cup hostRun.wr : InWorkspace(p)
    /\ \A p \in DOMAIN fs : ~InWorkspace(p) => InitiallyOutside(p)

\* The part of C1 that holds: the paths the handlers themselves resolve from
\* their arguments stay inside the workspace.
HandlerPathsInWorkspace == \A p \in hostRun.acc : InWorkspace(p)

\* C2: the claim's three kinds of schema violation, read off the schema.
MissesRequired(tool, args) == \E k \in input_schema(tool).required : k \notin DOMAIN args
HasUndeclared(tool, args) == \E k \in DOMAIN args : k \notin DOMAIN input_schema(tool).props
HasWrongType(tool, args) ==
    \E k \in DOMAIN args \cap DOMAIN input_schema(tool).props :
        \/ args[k].t # input_schema(tool).props[k].type
        \/ args[k].t = "array" /\ args[k].it \notin {input_schema(tool).props[k].items, "none"}
ViolatesSchema(tool, args) ==
    MissesRequired(tool, args) \/ HasUndeclared(tool, args) \/ HasWrongType(tool, args)

\* C2: a call whose arguments miss a required field, hold an undeclared
\* property or hold a value of the wrong type is answered ok=false and the
\* tool's handler is never invoked.
C2_SchemaViolationNeverDispatched ==
    (IsToolCall /\ hostIn.tool \in RegisteredTools /\ ViolatesSchema(hostIn.tool, hostIn.args))
        => (hostOut.printed = 1 /\ ~hostOut.ok /\ ~hostRun.invoked)

C2_Witness ==
    /\ IsToolCall /\ hostIn.tool = "run_unit_tests"
    /\ Has(hostIn.args, "test_file") /\ hostIn.args["test_file"].t = "string"
    /\ Has(hostIn.args, "timeout_seconds") /\ hostIn.args["timeout_seconds"].t = "string"
    /\ ~Has(hostIn.args, "unexpected")
    /\ ~hostOut.ok /\ ~hostRun.invoked

\* C3: every request is answered by exactly one JSON object on stdout, no
\* exception escapes main, a failure is the envelope {ok:false, error:{type,
\* message}}, and the exit code is 0 for an ok response and 1 otherwise.
C3_OneEnvelopePerRequest ==
    HostAnswered =>
        /\ hostOut.printed = 1
        /\ ~hostOut.escaped
        /\ (hostOut.ok => hostOut.exit = 0)
        /\ (~hostOut.ok => hostOut.exit = 1 /\ hostOut.errType # "")

\* C4: what the claim calls an acceptable path, by bytes and by characters.
NonBlank(s) == s.segs # <<>> \/ s.abs
AcceptableByBytes(s) == NonBlank(s) /\ s.bytes <= MAX_TOOL_ARGUMENT_LENGTH /\ ~s.nul /\ ~IsAbsolute(s)
AcceptableByChars(s) == NonBlank(s) /\ s.chars <= MAX_TOOL_ARGUMENT_LENGTH /\ ~s.nul /\ ~IsAbsolute(s)

FileTools == {"create_file", "read_file", "list_directory"}
GivenPath == hostIn.args[PathKey(hostIn.tool)].s
IsFileToolCallWithPath ==
    /\ IsToolCall /\ hostIn.tool \in FileTools
    /\ Has(hostIn.args, "relative_path") /\ hostIn.args["relative_path"].t = "string"
RejectedUntouched == ~hostOut.ok /\ hostRun.acc = {} /\ hostRun.wr \subseteq {LogFile}

\* C4 as stated: a path that is blank, longer than 1024 bytes, holds a NUL or
\* is absolute is rejected by every file tool with ok=false before the tool
\* touches the file system.
C4_UnacceptablePathRejected ==
    (IsFileToolCallWithPath /\ ~AcceptableByBytes(Strip(GivenPath))) => RejectedUntouched

\* C4 amended: the length limit is 1024 characters (code points), so a path
\* of at most 1024 characters is not refused by the validator whatever its
\* byte length, and list_directory reads a blank path as ".".
ValidatorMessages ==
    {"Path must be a non-empty string", "Path argument too long",
     "Path contains null byte", "Absolute paths are not allowed"}

C4_UnacceptablePathRejectedByChars ==
    /\ (/\ IsFileToolCallWithPath
         /\ ~AcceptableByChars(Strip(GivenPath))
         /\ ~(hostIn.tool = "list_directory" /\ ~NonBlank(GivenPath)))
            => RejectedUntouched
    /\ (IsFileToolCallWithPath /\ AcceptableByChars(Strip(GivenPath)))
            => hostOut.errMsg \notin ValidatorMessages

C4_Witness ==
    /\ IsToolCall /\ hostIn.tool = "read_file"
    /\ DOMAIN hostIn.args = {"relative_path"}
    /\ GivenPath = Abs(<<"etc", "passwd">>)
    /\ ~hostOut.ok /\ hostOut.errMsg = "Absolute paths are not allowed"
    /\ hostRun.invoked /\ hostRun.acc = {}

(***************************************************************************)
(* Claims about the Stream Gateway (checked under SpecGateway).            *)
(***************************************************************************)
ChildrenAlive == {c \in ChatIds : Alive(c)}
Answered(c) == chat[c].pc = "answered"

\* C5: under any interleaving of /api/chat requests at most one orchestrator
\* child is alive per gateway; a request arriving while a run is in flight,
\* even one that has passed the busy check without its child being in the
\* slot yet, gets the busy error and spawns nothing.
C5_AtMostOneChildAlive == Cardinality(ChildrenAlive) <= 1

\* C6: a chat stream whose headers went out holds only JSON-object lines and
\* ends with the done event, on every path.
C6_StartedStreamEndsWithDone ==
    \A c \in ChatIds :
        (Answered(c) /\ chat[c].stream.started) => (~chat[c].stream.bad /\ chat[c].stream.last = "done")

\* C7: when /api/stop answered stopped=true for a run, that run's stream
\* carries a stopped event followed by done.
C7_AcceptedStopEmitsStopped ==
    \A c \in ChatIds :
        (c \in stopAccepted /\ Answered(c)) => (chat[c].stream.stopped /\ chat[c].stream.last = "done")

\* The narrower reading of C7, the stop reaches a child that left no result:
\* it fails too, because another run's ChatFinish clears stop_requested.
StopOfResultlessRunEmitsStopped ==
    \A c \in ChatIds :
        (c \in stopAccepted /\ Answered(c) /\ chat[c].stdout_raw # "result") => chat[c].stream.stopped

(***************************************************************************)
(* Claims about the Loop Controller (checked under SpecLoop, and under     *)
(* SpecLoopLive for termination).                                          *)
(***************************************************************************)
RunOver == lpc \in {"returned", "raised"}

\* C8: LoopController.run is bounded: whatever the model answers, the run
\* eventually returns (an exception that ends run() is counted as an end too);
\* in particular a model that never produces a tool call, a DONE: or a STOP:
\* message does not keep the loop going forever.
C8_RunEventuallyReturns == <>RunOver

\* the tool call the controller has just processed
Processed == lpc = "dispatch" /\ last.valid
Dispatched == Processed /\ last.sent # ""

\* C9: every tool call the controller dispatches to the Tool Host names a tool
\* of the set offered to the model for that iteration; a call to a tool
\* outside that set is dropped without being executed.
C9_DispatchedToolWasOffered == Dispatched => last.sent \in last.offered

\* The same for the calls whose handler the Tool Host has run.
ExecutedToolWasOffered == Processed /\ last.executed => last.sent \in last.offered

\* the call is an edit that targets an existing workspace file
EditOfExistingFile == Processed /\ last.tool \in EditTools /\ Truthy(last.path) /\ last.existed

\* the edit itself went to the Tool Host
EditDispatched == last.sent = last.tool

\* the counters of the code: the file's read generation has caught up
GenerationsInStep == last.read_generation >= last.generation /\ last.read_generation >= 0

\* the file has been read since its last accepted write: the counters are in
\* step and a read_file has returned the content of the file
ReadSinceLastWrite == GenerationsInStep /\ last.wasRead

\* the edit was replaced by a read of the file and recorded as deferred
ReadInstead ==
    /\ last.sent = "read_file" /\ last.sync
    /\ last.res.deferred
    /\ hostIn.args = ("relative_path" :> VPath(last.path)) @@ ("max_bytes" :> VInt(200000))

\* C10: an edit (create_file, append_to_file, insert_after_marker,
\* replace_range) of an existing workspace file p is dispatched to the Tool
\* Host only if p has been read since its last accepted write; otherwise the
\* edit is not executed, a read_file of p is performed and the call is
\* recorded as deferred.
C10_EditOnlyAfterRead ==
    EditOfExistingFile =>
        IF ReadSinceLastWrite THEN TRUE
        ELSE ~EditDispatched /\ ReadInstead

\* The first half of C10 alone: no edit of an existing file is dispatched
\* unless the file has been read since its last accepted write.
EditDispatchedOnlyAfterRead ==
    EditOfExistingFile /\ EditDispatched => ReadSinceLastWrite

\* The first half of C10 on the counters alone.
EditDispatchedOnlyInStep ==
    EditOfExistingFile /\ EditDispatched => GenerationsInStep

\* The second half of C10 alone: an edit that is held back is replaced by a read.
HeldBackEditIsRead ==
    EditOfExistingFile /\ ~EditDispatched => ReadInstead

(***************************************************************************)
(* Claims about the gates of validation and tests, completion and the      *)
(* stops of the run (checked under SpecBuild unless said otherwise).       *)
(***************************************************************************)
ValidationRequested == Processed /\ last.tool = "validate_web_app"
TestsRequested == Processed /\ last.tool = "run_unit_tests"
BeforeFirstEdit == run.started_from_empty /\ ~hist.was.edited

\* C11: while the workspace started empty and no create_file or structured
\* edit has succeeded at the Tool Host in the run, a validate_web_app or
\* run_unit_tests request starts no Tool Host process and is given a
\* deferred result.
C11_NoGateCallBeforeFirstEdit ==
    (ValidationRequested \/ TestsRequested) /\ BeforeFirstEdit
        => last.sent = "" /\ ~last.executed /\ last.res.deferred

\* the request is held back although scaffold_web_app has written the site
C11_Witness ==
    /\ ValidationRequested /\ BeforeFirstEdit
    /\ {"html", "css", "js"} \subseteq hist.was.kinds
    /\ last.res.deferred /\ last.sent = ""

ValidationExecuted == ValidationRequested /\ last.sent = "validate_web_app"

\* the workspace holds a file of the kind (it was written at least once)
Holds(kind) == \E p \in DOMAIN fs : InWorkspace(p) /\ IsFile(fs, p) /\ kind \in KindsOf(p)

ValidationDue ==
    \/ Holds("html") /\ Holds("css") /\ Holds("js")
    \/ hist.was.changed
    \/ hist.was.valStreak >= 2
    \/ hist.was.valTotal >= max_total_deferrals

\* C12: a validate_web_app request is given to the Tool Host only when an
\* HTML, a CSS and a JS file have all been written, or a file has changed
\* since the last validation, or the two validation requests before it were
\* deferred, or max_total_deferrals validation requests have been deferred.
C12_ValidationRunsOnlyWhenDue == ValidationExecuted => ValidationDue

TestsExecuted == TestsRequested /\ last.sent = "run_unit_tests"

TestsDue ==
    \/ hist.was.validated /\ hist.was.testChanged
    \/ hist.was.testStreak >= 2
    \/ hist.was.testTotal >= max_total_deferrals

\* C13: a run_unit_tests request is given to the Tool Host only when a
\* validation has passed in the run and a test file (tests.js, *.test.js) has
\* been written since the last test run, or the two test requests before it
\* were deferred, or max_total_deferrals test requests have been deferred.
C13_TestsRunOnlyWhenDue == TestsExecuted => TestsDue

Completed == lpc = "returned" /\ runResult.status = "completed"

\* C14: when run returns "completed", min_iterations iterations have been
\* made, create_file processes that succeeded have written an HTML, a CSS, a
\* JS and a test file, a validate_web_app process has reported ok and a
\* run_unit_tests process has reported ok on a test file.
C14_CompletedLeavesNoGap ==
    Completed =>
        /\ run.iteration >= min_iterations
        /\ {"html", "css", "js", "test"} \subseteq hist.now.created
        /\ hist.now.validated
        /\ hist.now.tested

\* the first answer of the iteration began with STOP:
StopAnswered == turn.stop_first
StoppedByAgent == lpc = "returned" /\ runResult.status = "stopped_by_agent"

\* C15: when the answer of an iteration begins with STOP:, the run ends in
\* that iteration with status stopped_by_agent, no tool call of the answer is
\* executed and the model is not called again.
C15_StopAnswerEndsRunAtOnce ==
    StopAnswered => StoppedByAgent /\ ~turn.recovered /\ turn.tool_calls = <<>>

\* the parts of C15, one by one
StopAnswerEndsRun == StopAnswered => StoppedByAgent
StopAnswerRunsNoCall == StopAnswered => lpc # "dispatch"
StopAnswerIsLastCall == StopAnswered => ~turn.recovered

StoppedNoProgress == lpc = "returned" /\ runResult.status = "stopped_no_progress"
AtNoProgressCeiling == run.no_progress_iterations >= max_no_progress_iterations

\* every answer so far held the one call plan_web_build, and so many
\* iterations have ended
PlanOnlyFor(n) == hist.now.planOnly /\ hist.now.ended >= n

\* C16: the run returns stopped_no_progress as soon as no_progress_iterations
\* reaches max_no_progress_iterations, and a model that answers every
\* iteration with one plan_web_build call is stopped in that way: when it is
\* stopped, no_progress_iterations has reached the ceiling.
C16_PlanOnlyStoppedAtNoProgressCeiling ==
    /\ AtNoProgressCeiling => StoppedNoProgress
    /\ StoppedNoProgress /\ hist.now.planOnly => AtNoProgressCeiling

\* C16, amended: the run returns stopped_no_progress as soon as
\* no_progress_iterations reaches max_no_progress_iterations; a model that
\* answers every iteration with one plan_web_build call is stopped with the
\* same status after max_repeated_signatures iterations, by the test on
\* repeated signatures, its no_progress_iterations being 0.
C16_StoppedAtCeilingPlanOnlyAtRepeat ==
    /\ AtNoProgressCeiling => StoppedNoProgress
    /\ PlanOnlyFor(max_repeated_signatures) => StoppedNoProgress /\ run.no_progress_iterations = 0
    /\ PlanOnlyFor(1) /\ StoppedNoProgress => PlanOnlyFor(max_repeated_signatures)

\* a run is stopped at the ceiling, its last iterations not all alike
C16_Witness ==
    /\ StoppedNoProgress /\ AtNoProgressCeiling
    /\ Cardinality(Range(run.recent_tool_call_signatures)) > 1

\* stopped by the test on repeated signatures (the other test did not hold)
SignatureStop == StoppedNoProgress /\ ~AtNoProgressCeiling

\* no file of the workspace was written in the last max_repeated_signatures
\* iterations
QuietWindow == hist.now.sinceWrite > max_repeated_signatures

\* the last max_repeated_signatures iterations made the same calls
SameSignatures ==
    /\ Len(run.recent_tool_call_signatures) >= max_repeated_signatures
    /\ Cardinality(Range(run.recent_tool_call_signatures)) = 1

\* C17: the test on repeated signatures ends the run exactly when the last
\* max_repeated_signatures iterations made the same calls and no file was
\* changed in any of them; it does not end a run in which a file was changed
\* in one of them.
C17_SignatureStopExactlyWhenStuck ==
    /\ SignatureStop => SameSignatures /\ QuietWindow
    /\ SameSignatures /\ QuietWindow => StoppedNoProgress

\* the parts of C17, one by one
SignatureStopOnlyWhenQuiet == SignatureStop => QuietWindow
StuckIsStopped == SameSignatures /\ QuietWindow => StoppedNoProgress

\* a Tool Host process was started for the call and did not report ok
FailedCall == Dispatched /\ ~last.res.nested_ok

\* C19: a tool call that fails does not end the run; the feedback of the
\* iteration, which names the tool and its error, is appended to memory and
\* the loop goes on with its next step.
C19_FailedCallGetsFeedback ==
    FailedCall => lpc = "dispatch" /\ turn.iteration_had_tool_error

\* C19 for the tools _extract_tool_feedback knows
FailedBuildCallGetsFeedback ==
    FailedCall /\ last.tool \in FeedbackTools => lpc = "dispatch" /\ turn.iteration_had_tool_error

\* the built-in tools
BuiltInTools ==
    {"create_file", "read_file", "list_directory", "append_to_file", "insert_after_marker",
     "replace_range", "scaffold_web_app", "validate_web_app", "run_unit_tests", "plan_web_build",
     "sandbox_echo_path"}

\* C20 (checked under SpecLoop): a call_tool the Loop Controller sends for a
\* built-in tool names a tool of the Tool Host's catalog and is not rejected
\* as an unknown tool.
C20_BuiltInToolsReachHandlers ==
    Dispatched /\ last.sent \in BuiltInTools
        => /\ last.sent \in Range(Catalog)
           /\ hostOut.errMsg # "Unknown tool"

(***************************************************************************)
(* A claim about the orchestrator process (checked under SpecGateway).     *)
(***************************************************************************)
\* the child ended on an exception
DiedOfException(c) == child[c].state = "exited" /\ child[c].code = 1

\* C18: an exception raised in the orchestrator process ends it with a
\* non-zero exit code and with one JSON error envelope on its stdout.
C18_ExceptionGivesErrorEnvelope ==
    \A c \in ChatIds : DiedOfException(c) => child[c].code # 0 /\ child[c].out = "error"

(***************************************************************************)
(* Claims about the file tools (checked under SpecHost).                   *)
(***************************************************************************)
\* the tool log and the directory it lies in
LogPaths == {SubSeq(LogFile, 1, n) : n \in 1..Len(LogFile)}

\* the step is a create_file process that does not report ok
CreateFileFails ==
    /\ hostIn = NoRequest
    /\ hostIn'.action = "call_tool" /\ hostIn'.tool = "create_file"
    /\ ~(hostOut'.ok /\ hostRun'.ok)

\* but for the tool log, the step leaves every file and directory as it was
\* and makes no new one
FilesKept ==
    /\ DOMAIN fs' \ LogPaths = DOMAIN fs \ LogPaths
    /\ \A p \in DOMAIN fs \ LogPaths : fs'[p] = fs[p]

AfterRoundTrip ==
    disk.pc = "read" /\ disk.created.ok /\ disk.max_bytes \in 1..MAX_READ_BYTES

\* the read gives the text back, or flags the cut and gives the (lossily
\* decoded) first max_bytes bytes of it
ReadsBack ==
    /\ disk.read.ok
    /\ IF Len(utf8(disk.c)) <= disk.max_bytes
       THEN ~disk.read.truncated /\ disk.read.content = disk.c
       ELSE disk.read.truncated /\ disk.read.content = decode(Prefix(utf8(disk.c), disk.max_bytes))

\* C22: after a successful create_file(p, c), read_file(p, max_bytes) returns
\* c when c has at most max_bytes bytes, and otherwise truncated=true with
\* the first max_bytes bytes of c (decoded lossily).
C22_ReadReturnsWhatWasCreated == AfterRoundTrip => ReadsBack

\* the same for every path but the tool log
ReadsBackOffLog == AfterRoundTrip /\ disk.p # LogPath => ReadsBack

\* a read that cut a two-byte character in the middle
CutInsideCharacter ==
    /\ AfterRoundTrip /\ disk.p # LogPath /\ disk.read.truncated
    /\ disk.read.content # <<>> /\ disk.read.content[Len(disk.read.content)] = Replacement

\* run_unit_tests got as far as its command: the path was accepted, the file
\* is a test file, and the timeout (30 when not given) lies in 1..120
CommandRun ==
    /\ IsToolCall /\ hostIn.tool = "run_unit_tests"
    /\ hostRun.invoked /\ hostRun.acc # {}
    /\ validate_timeout_seconds(IntArg(hostIn.args, "timeout_seconds", 30))

\* C23: run_safe_command never raises: whether the child exits zero, exits
\* non-zero or runs into the timeout, the handler returns its result
\* (exit_code, command, timeout_seconds) and the process answers with it.
C23_CommandAlwaysAnswers == CommandRun => hostOut.ok /\ hostOut.exit = 0

(***************************************************************************)
(* Claims about ProjectMemory (checked under SpecMemory).                  *)
(***************************************************************************)
Present == {k \in MemPathSet : tree[k].there}

\* C24: after a refresh that completed, self.snapshots holds one snapshot for
\* each non-ignored file of the workspace and none for any other path, and
\* the mtime_ns and size_bytes of each snapshot are those of the file's stat.
C24_RefreshMirrorsWorkspace ==
    memory.last = "completed" =>
        /\ DOMAIN memory.snapshots = {k \in Present : ~_ignore_path(k)}
        /\ \A k \in DOMAIN memory.snapshots :
              /\ memory.snapshots[k].mtime_ns = tree[k].mtime_ns
              /\ memory.snapshots[k].size_bytes = tree[k].size_bytes

\* a completed refresh that dropped the snapshot of a file that is gone, took
\* a changed file again, and passed over the ignored files that are there
C24_Witness ==
    /\ memory.last = "completed" /\ memory.stale # {}
    /\ \E k \in DOMAIN memory.snapshots : memory.snapshots[k].change_count > 0
    /\ \E k \in Present : _ignore_path(k)

(***************************************************************************)
(* Claims about the tool-embedding cache (checked under SpecPruner).       *)
(***************************************************************************)
Loaded == pruner.last = "loaded"
ModelDiffers == pruner.was.embedding_model # pruner.embedding_model
NotCached == PrunerToolSet \ DOMAIN pruner.was.vectors

\* C25: a load embeds every tool when the vectors file names another model,
\* and exactly the tools without a cached vector when it names the current
\* one, whose cached vectors are reused as they are; afterwards the file names
\* the current model and every vector in it was produced by that model.
C25_LoadEmbedsOnlyWhatIsMissing ==
    Loaded =>
        /\ pruner.embedded = IF ModelDiffers THEN PrunerToolSet ELSE NotCached
        /\ ~ModelDiffers =>
              \A k \in PrunerToolSet \ NotCached : pruner.result_vectors[k] = pruner.was.vectors[k]
        /\ pruner.file.embedding_model = pruner.embedding_model
        /\ \A k \in DOMAIN pruner.file.vectors : pruner.file.vectors[k].by = pruner.embedding_model

\* what does hold of a load: the missing tools are embedded, and the file ends
\* as the claim says
LoadLeavesCurrentFile ==
    Loaded =>
        /\ (IF ModelDiffers THEN PrunerToolSet ELSE NotCached) \subseteq pruner.embedded
        /\ DOMAIN pruner.result_vectors = PrunerToolSet
        /\ \A k \in PrunerToolSet : pruner.result_vectors[k].by = pruner.embedding_model
        /\ pruner.file.embedding_model = pruner.embedding_model
        /\ \A k \in DOMAIN pruner.file.vectors : pruner.file.vectors[k].by = pruner.embedding_model

(***************************************************************************)
(* Claims about the session transcript (checked under SpecLoop).           *)
(***************************************************************************)
\* C26: the transcript starts with the system prompt and the user's task, and
\* a message, once appended, is never modified or removed (the code holds no
\* compaction): the tool calls of the assistant message are, at every later
\* point, the ones that were appended.
C26_TranscriptIsAppendOnly ==
    /\ transcript.head = <<"system", "user">>
    /\ transcript.tool_calls = transcript.appended

\* the transcript keeps its first two messages and the number of calls of the
\* assistant message
TranscriptKeepsShape ==
    /\ transcript.head = <<"system", "user">>
    /\ Len(transcript.tool_calls) = Len(transcript.appended)
    /\ \A i \in DOMAIN transcript.tool_calls : transcript.tool_calls[i].name = transcript.appended[i].name

(***************************************************************************)
(* Claims about file_generation (checked under SpecBuild).                 *)
(***************************************************************************)
RECURSIVE Total(_, _)
Total(count, keys) ==
    IF keys = {} THEN 0
    ELSE LET k == CHOOSE x \in keys : TRUE IN count[k] + Total(count, keys \ {k})

\* file_generation of the file f, under whatever spelling of its path
GenerationOf(f) ==
    Total(run.file_generation,
          {k \in DOMAIN run.file_generation : _resolve_workspace_file(k, hasLink) = f})

\* the writes to f the Tool Host has executed with ok=true in this run
AcceptedWrites(f) == IF f \in DOMAIN hist.now.writes THEN hist.now.writes[f] ELSE 0

\* C27: file_generation[p] is the number of accepted writes to p so far: it
\* grows by one with each write to p the Tool Host executed with ok=true, the
\* files written by scaffold_web_app included, and with nothing else.
C27_GenerationCountsAcceptedWrites ==
    \A f \in DOMAIN fs \cup DOMAIN hist.now.writes : GenerationOf(f) = AcceptedWrites(f)

\* the same without the files scaffold_web_app wrote
GenerationCountsEdits ==
    \A f \in DOMAIN fs \cup DOMAIN hist.now.writes : GenerationOf(f) <= AcceptedWrites(f)

(***************************************************************************)
(* Claims about the tools given to the model (checked under SpecSelect).   *)
(***************************************************************************)
Offered == selection.pc # "start"

\* the stage-required names of _ensure_required_tools
RequiredNames ==
    {"list_directory", "read_file", "create_file", "append_to_file", "insert_after_marker", "replace_range"}
    \cup (IF ~selection.phase_plan_ready THEN {"plan_web_build"} ELSE {})
    \cup (IF ~selection.phase_plan_ready /\ selection.workspace_is_empty THEN {"scaffold_web_app"} ELSE {})

\* C28: every stage-required tool that the catalog holds is in the list given
\* to the model, whatever the reranker selected.
C28_RequiredToolsOffered ==
    Offered => RequiredNames \cap Range(Catalog) \subseteq Range(selection.offered)

\* C29: the list given to the model holds at most top_k_tools tools.
C29_AtMostTopKOffered == Offered => Len(selection.offered) <= top_k_tools

\* what the code keeps to: max(top_k_tools, number of stage-required names)
OfferedWithinLimit ==
    Offered => Len(selection.offered) <= Max(top_k_tools, Cardinality(RequiredNames))

NoNameTwice(tools) == Cardinality(Range(tools)) = Len(tools)

\* C30: every tool given to the model, in the chat and in the recovery chat,
\* is an entry of the catalog, and no list holds a name twice, whatever the
\* reranker model wrote.
C30_OfferedToolsAreCatalogEntries ==
    /\ Offered => Range(selection.offered) \subseteq Range(Catalog) /\ NoNameTwice(selection.offered)
    /\ selection.pc = "recovery" =>
          Range(selection.recovery) \subseteq Range(Catalog) /\ NoNameTwice(selection.recovery)

\* the reranker model named an unknown tool, gave a score that is no number
\* and named a tool twice; the selection it led to holds that tool twice
C30_Witness ==
    /\ selection.pc = "recovery" /\ selection.phase_plan_ready
    /\ \E i \in DOMAIN selection.rankings.rows : selection.rankings.rows[i].name \notin Range(Catalog)
    /\ \E i \in DOMAIN selection.rankings.rows : ~selection.rankings.rows[i].numeric
    /\ ~NoNameTwice(selection.reranked)
    /\ selection.offered # <<>>

(***************************************************************************)
(* Claims about the dispatch loop of run() (C31 under SpecLoop).           *)
(***************************************************************************)
\* the dispatch loop is about to handle a call
CallPending ==
    lpc = "dispatch" /\ turn.index <= Len(turn.tool_calls) /\ turn.index <= max_tool_calls_per_iteration

\* the call the dispatch loop is about to handle, after _normalize_tool_call
PendingCall == _normalize_tool_call(turn.tool_calls[turn.index], hasLink)

\* the call about to be handled is a create_file(p, c) and the last
\* create_file process that wrote p was given the content c
RepeatsLastCreate ==
    /\ CallPending
    /\ PendingCall.name = "create_file"
    /\ Strip(StrArg(PendingCall.arguments, "relative_path", EmptyStr)) \in DOMAIN hist.now.lastCreate
    /\ hist.now.lastCreate[Strip(StrArg(PendingCall.arguments, "relative_path", EmptyStr))]
         = TextArg(PendingCall.arguments, "content", "")

\* the call was handled without a Tool Host process, with a deferred result,
\* and the files, file_generation and the changed-file sets are as before
SkippedWithoutEffect ==
    /\ hostIn' = NoRequest /\ ~hostRun'.invoked
    /\ last'.valid /\ last'.tool = "create_file" /\ last'.res.deferred
    /\ fs' = fs
    /\ run'.file_generation = run.file_generation
    /\ run'.changed_since_validation = run.changed_since_validation
    /\ run'.changed_since_tests = run.changed_since_tests
    /\ turn'.edited_files_this_iteration = turn.edited_files_this_iteration
    /\ turn'.iteration_changed_files = turn.iteration_changed_files

\* C31: a create_file(p, c) whose content is that of the last accepted
\* create_file write of p is not sent to the Tool Host: its result is
\* deferred, and the file, file_generation[p] and the changed-file sets stay
\* as they are.
C31_RepeatedCreateIsSkipped == [][RepeatsLastCreate => SkippedWithoutEffect]_vars

\* a repeated create_file was skipped: index.html, written in an earlier
\* iteration, is asked for again with the same content
C31_Witness ==
    /\ last.valid /\ last.tool = "create_file" /\ last.res.deferred /\ ~last.executed
    /\ last.path = IndexHtml
    /\ last.path \in DOMAIN hist.was.lastCreate
    /\ hist.was.lastCreate[last.path] = TextArg(last.arguments, "content", "")
    /\ IsFile(fs, _resolve_workspace_file(last.path, hasLink))
    /\ fs[_resolve_workspace_file(last.path, hasLink)] = File(TextArg(last.arguments, "content", ""))

(***************************************************************************)
(* Claims about an answer without tool calls (C32 under SpecBuild).        *)
(***************************************************************************)
\* The last answer (after the recovery chat) held no tool call and reads as
\* completion without the DONE: prefix; run() has given its verdict on it.
\* (The text that comes with tool calls never reads so in the scenarios.)
CompletionProseAnswered ==
    /\ lpc \in {"chat", "returned"}
    /\ turn.tool_calls = <<>>
    /\ _looks_like_completion_without_done(turn.content)

AcceptedWithPrefix == Completed /\ runResult.final_message.prefix = "DONE:"

\* C32: completion prose without DONE: and without a tool call is accepted
\* (status completed, final_message beginning with DONE:) exactly when no
\* completion gap remains; with gaps the run goes on to the next iteration.
C32_CompletionProseAcceptedIffNoGap ==
    CompletionProseAnswered =>
        IF _completion_gaps(run) = {} THEN AcceptedWithPrefix ELSE lpc = "chat"

\* what run() keeps to: the prose is never accepted while a gap remains, and
\* it is accepted without gaps when it neither asks for a manual check nor
\* speaks of validation or tests
CompletionProseNeverAcceptedWithGap ==
    CompletionProseAnswered /\ _completion_gaps(run) # {} => lpc = "chat"
PlainCompletionProseAccepted ==
    CompletionProseAnswered /\ _completion_gaps(run) = {}
    /\ ~turn.content.manual_verify /\ ~turn.content.mentions_validation
        => AcceptedWithPrefix
PlainCompletionProseWasAccepted ==
    CompletionProseAnswered /\ AcceptedWithPrefix /\ turn.content = MsgTaskComplete

(***************************************************************************)
(* Claims about the order of events in one iteration (C33 under SpecLoop). *)
(***************************************************************************)
\* the place of an event in the order the claim gives
Rank(e) ==
    CASE e.kind = "retrieval" -> 0
      [] e.kind = "selection" -> 1
      [] e.kind = "chat" -> 2
      [] e.kind = "dispatch" -> 1 + 2 * e.call
      [] e.kind = "tool_message" -> 2 + 2 * e.call

EventsOf(kind) == {j \in DOMAIN turn.events : turn.events[j].kind = kind}

\* C33: in every iteration the retrieval log event comes first, then the
\* selection log event, then the agent chat, then for each tool call in list
\* order its Tool Host process followed by its tool-result message; a call is
\* dispatched once, and no call is dispatched before the result message of
\* the call before it is in memory.
C33_EventsInOrder ==
    /\ \A j, k \in DOMAIN turn.events : j < k => Rank(turn.events[j]) <= Rank(turn.events[k])
    /\ turn.events # <<>> =>
          /\ Len(turn.events) >= 3
          /\ turn.events[1].kind = "retrieval"
          /\ turn.events[2].kind = "selection"
          /\ turn.events[3].kind = "chat"
    /\ \A j \in EventsOf("dispatch") :
          /\ \E k \in EventsOf("tool_message") : k > j /\ turn.events[k].call = turn.events[j].call
          /\ \A k \in EventsOf("dispatch") : turn.events[k].call = turn.events[j].call => k = j
    /\ lpc = "dispatch" =>
          /\ turn.events # <<>>
          /\ \A i \in 1..(turn.index - 1) : \E k \in EventsOf("tool_message") : turn.events[k].call = i
          /\ \A k \in EventsOf("tool_message") \cup EventsOf("dispatch") : turn.events[k].call < turn.index
    /\ last.valid => (last.executed => \E k \in EventsOf("dispatch") : turn.events[k].call = turn.index - 1)

\* two calls of one answer were each run by a Tool Host process
C33_Witness ==
    /\ lpc = "dispatch" /\ turn.index = 3
    /\ \E j, k \in EventsOf("dispatch") : turn.events[j].call = 1 /\ turn.events[k].call = 2
    /\ hist.now.edited

(***************************************************************************)
(* Claims about writes that name no file or carry no content (C34 under    *)
(* SpecBuild).                                                             *)
(***************************************************************************)
\* the call the dispatch loop handled last is a write whose relative_path is
\* empty (after strip) or whose content is empty
BlankWrite ==
    /\ last.valid /\ last.tool \in EditTools
    /\ ~Truthy(last.path) \/ TextArg(last.arguments, "content", "") = ""

WriteDispatched == hostIn.action = "call_tool" /\ hostIn.tool = last.tool

\* C34: a create_file or structured edit with an empty relative_path or an
\* empty content is skipped: no Tool Host process is started for it.
C34_BlankWriteNeverDispatched == BlankWrite => ~WriteDispatched

\* a create_file with empty content was run by the Tool Host and wrote the file
BlankWriteWritten ==
    /\ BlankWrite /\ WriteDispatched /\ hostRun.ok
    /\ \E q \in hostRun.wr : IsFile(fs, q) /\ fs[q] = File("")

(***************************************************************************)
(* Claims about the cap on the calls of one iteration (C35 under           *)
(* SpecBuild).                                                             *)
(***************************************************************************)
\* C35: an iteration starts at most max_tool_calls_per_iteration Tool Host
\* processes: nothing is done for a call beyond the cap, and a synchronising
\* read is the one process of the edit it defers.
C35_AtMostCapDispatches ==
    /\ Cardinality(EventsOf("dispatch")) <= max_tool_calls_per_iteration
    /\ \A k \in DOMAIN turn.events : turn.events[k].call <= max_tool_calls_per_iteration
    /\ last.valid /\ last.sync =>
          /\ hostIn.tool = "read_file"
          /\ Cardinality({k \in EventsOf("dispatch") : turn.events[k].call = turn.index - 1}) = 1

\* an answer of nine calls: eight Tool Host processes were started, one of
\* them a synchronising read, and the ninth call is left
C35_Witness ==
    /\ lpc = "dispatch" /\ Len(turn.tool_calls) = max_tool_calls_per_iteration + 1
    /\ turn.index = max_tool_calls_per_iteration + 1
    /\ Cardinality(EventsOf("dispatch")) = max_tool_calls_per_iteration
    /\ \E j, k \in EventsOf("tool_message") : j # k /\ turn.events[j].call = turn.events[k].call
    /\ ~Exists(fs, <<"ws", "notes.md">>)

(***************************************************************************)
(* Claims about the paths the Tool Host is given (C36 under SpecBuild).    *)
(***************************************************************************)
\* the path arguments of the request the Tool Host process was given
PathsGiven ==
    {hostIn.args[k].s : k \in {k \in {"relative_path", "app_dir", "test_file"} :
                                 Has(hostIn.args, k) /\ hostIn.args[k].t = "string"}}

\* an absolute path that points inside the workspace
AbsoluteInside(s) == IsAbsolute(Strip(s)) /\ InWorkspace(ResolveFrom(<<>>, Strip(s).segs, hasLink))

\* C36: the Tool Host is never given an absolute path for a location inside
\* the workspace: normalization has made it workspace-relative before.
C36_NoAbsoluteWorkspacePathDispatched ==
    hostIn.action = "call_tool" => \A s \in PathsGiven : ~AbsoluteInside(s)

\* what _normalize_tool_call keeps to: only create_file and read_file
\* requests carry such a path
AbsolutePathOnlyInCreateAndRead ==
    hostIn.action = "call_tool" /\ hostIn.tool \notin {"create_file", "read_file"}
        => \A s \in PathsGiven : ~AbsoluteInside(s)
AbsolutePathRewritten ==
    /\ hostIn.action = "call_tool" /\ hostIn.tool = "list_directory" /\ hostRun.ok
    /\ last.valid /\ last.tool = "list_directory"
    /\ AbsoluteInside(turn.tool_calls[turn.index - 1].arguments["relative_path"].s)
    /\ PathsGiven = {DotStr}

(***************************************************************************)
(* Claims about replace_range (C37 under SpecRange).                       *)
(***************************************************************************)
\* the lines of a text, without their line feeds
LinesOf(text) ==
    [i \in 1..Len(splitlines(text)) |->
        IF endswithLF(splitlines(text)[i])
        THEN SubSeq(splitlines(text)[i], 1, Len(splitlines(text)[i]) - 1)
        ELSE splitlines(text)[i]]

RangeCalled == ranged.pc = "done" /\ ranged.answer # RangeNotCalled
RangeInvalid == ranged.start_line < 1 \/ ranged.end_line < ranged.start_line

\* start and end clamped to the number of lines of the file
ClampedStart == IF ranged.start_line <= Len(LinesOf(ranged.file.raw)) THEN ranged.start_line
                ELSE Len(LinesOf(ranged.file.raw)) + 1
ClampedEnd == IF ranged.end_line <= Len(LinesOf(ranged.file.raw)) THEN ranged.end_line
              ELSE Len(LinesOf(ranged.file.raw))

\* the lines the file should hold: those before the range, the content, those after it
ExpectedLines ==
    SubSeq(LinesOf(ranged.file.raw), 1, ClampedStart - 1)
    \o LinesOf(ranged.content)
    \o SubSeq(LinesOf(ranged.file.raw), ClampedEnd + 1, Len(LinesOf(ranged.file.raw)))

RangeRejectedKeepsFile ==
    RangeCalled /\ RangeInvalid => ~ranged.answer.ok /\ ranged.after = ranged.file

RangeReplacedAsExpected ==
    /\ LinesOf(ranged.after.raw) = ExpectedLines
    /\ ranged.answer.effective_start_line = ClampedStart
    /\ ranged.answer.effective_end_line = ClampedEnd

\* C37: replace_range replaces exactly the lines start_line..end_line
\* (1-based, inclusive, clamped to the number of lines; a start_line beyond
\* the end appends) by the content and reports the clamped range; a call
\* with start_line < 1 or end_line < start_line is rejected and the file is
\* left as it was.
C37_ReplaceRangeReplacesLines ==
    /\ RangeRejectedKeepsFile
    /\ RangeCalled /\ ranged.answer.ok => RangeReplacedAsExpected

\* what replace_range_tool keeps to: the lines are as expected unless the
\* content is put behind a last line that has no line feed
RangeReplacedWhereTerminated ==
    RangeCalled /\ ranged.answer.ok
    /\ (ClampedStart <= Len(LinesOf(ranged.file.raw)) \/ ranged.file.raw = <<>>
          \/ endswithLF(ranged.file.raw) \/ ranged.content = <<>>)
        => RangeReplacedAsExpected
RangeReplacedInside ==
    /\ RangeCalled /\ ranged.answer.ok /\ RangeReplacedAsExpected
    /\ Len(LinesOf(ranged.file.raw)) = 2 /\ ranged.start_line = 2 /\ ranged.end_line = 2
    /\ ranged.content = <<"y">> /\ ranged.after.raw # ranged.file.raw
RangeRejected ==
    RangeCalled /\ RangeInvalid /\ ranged.file.there /\ ranged.content # <<>>

(***************************************************************************)
(* Claims about the deferral ceilings (C38 under SpecBuild).               *)
(***************************************************************************)
\* the run did not start on an empty workspace, or an edit tool has succeeded
\* before the call that was handled last
PastEmptyStart == ~run.started_from_empty \/ hist.was.edited

\* the call handled last asked for tool after two deferred results in a row,
\* or after max_total_deferrals deferred results in all
AtCeiling(tool, streak, total) ==
    /\ last.valid /\ last.tool = tool /\ PastEmptyStart
    /\ streak >= 2 \/ total >= max_total_deferrals

RanInHost(tool) == ~last.res.deferred /\ hostIn.action = "call_tool" /\ hostIn.tool = tool

C38_WitnessTests ==
    /\ AtCeiling("run_unit_tests", hist.was.testStreak, hist.was.testTotal)
    /\ RanInHost("run_unit_tests")

(***************************************************************************)
(* Claims about the redundant-rewrite skip and the file (C39 under         *)
(* SpecBuild).                                                             *)
(***************************************************************************)
\* the call handled last is a create_file(p, c) that the test of line 586
\* answered: p is not empty, last_create_file_signature[p] is the signature
\* of c, and the max-files guard of lines 484-488 did not answer first
SkippedAsRedundant ==
    /\ last.valid /\ last.tool = "create_file" /\ last.res.deferred /\ ~hostRun.invoked
    /\ Truthy(last.path)
    /\ last.path \in DOMAIN run.last_create_file_signature
    /\ run.last_create_file_signature[last.path] = _text_signature(TextArg(last.arguments, "content", ""))
    /\ \/ last.path \in turn.edited_files_this_iteration
       \/ Cardinality(turn.edited_files_this_iteration) < max_files_per_iteration

FileHoldsGivenContent ==
    /\ IsFile(fs, _resolve_workspace_file(last.path, hasLink))
    /\ fs[_resolve_workspace_file(last.path, hasLink)] = File(TextArg(last.arguments, "content", ""))

\* C39: whenever a create_file(p, c) is skipped as a redundant rewrite, the
\* file p of the workspace holds c.
C39_SkippedCreateMatchesFile == SkippedAsRedundant => FileHoldsGivenContent

\* a create_file was skipped as redundant while the file holds other content
SkippedCreateWouldChangeFile == SkippedAsRedundant /\ ~FileHoldsGivenContent
\* ... because the file was rewritten under another spelling of its path
SkippedAfterAliasWrite ==
    /\ SkippedCreateWouldChangeFile /\ last.path = IndexHtml
    /\ DotIndexHtml \in DOMAIN run.last_create_file_signature

\* the file of the skipped create_file was written under one spelling only
OneSpelling ==
    \A q \in DOMAIN run.last_create_file_signature :
        _resolve_workspace_file(q, hasLink) = _resolve_workspace_file(last.path, hasLink) => q = last.path
\* where that is so, the skipped create_file would not have changed the file
SkippedCreateMatchesFileOfOneSpelling ==
    SkippedAsRedundant /\ OneSpelling => FileHoldsGivenContent
\* no structured edit is ever accepted: the Tool Host knows none of them
NoStructuredEditAccepted == DOMAIN run.last_structured_edit_signature = {}

(***************************************************************************)
(* Claims about /api/stop and the runs it reaches (C40 under SpecGateway). *)
(***************************************************************************)
NoChildAlive == \A c \in ChatIds : ~Alive(c)

\* an /api/stop found the child of c alive in the slot and set the flag
StoppedFor(c) == \E s \in StopIds : stopper[s].pc # "waiting" /\ stopper[s].process = c

\* the response of c ended with "Execution stopped by user."
ReportedStoppedByUser(c) ==
    chat[c].pc = "answered" /\ chat[c].stopped_by_user /\ chat[c].stream.stopped

\* c was reported as stopped by the user, no stop was issued for c, and one
\* was issued for a run admitted before c
StaleStopReported(c) ==
    /\ ReportedStoppedByUser(c) /\ ~StoppedFor(c)
    /\ \E d \in ChatIds : chat[d].nth > 0 /\ chat[d].nth < chat[c].nth /\ StoppedFor(d)

\* C40: while no child is alive a new /api/chat is admitted, and no run is
\* reported as stopped by the user because of a stop issued for an earlier
\* run.
C40_StopReachesOnlyItsRun ==
    /\ NoChildAlive => ~SlotBusy
    /\ \A c \in ChatIds : ~StaleStopReported(c)

\* the parts that hold: the slot is free while no child is alive ...
SlotFreeWhenNoChildAlive == NoChildAlive => ~SlotBusy
\* ... and the flag is down when a run has taken the slot
RunStartsWithFlagDown ==
    [][\A c \in ChatIds : chat[c].pc = "spawned" /\ chat'[c].pc = "relaying" => ~stop_requested']_vars
\* a run that was the only one admitted is reported as stopped by the user
\* only when a stop was issued for it
LoneRunStoppedOnlyByItsStop ==
    \A c \in ChatIds :
        ReportedStoppedByUser(c) /\ (\A d \in ChatIds \ {c} : chat[d].nth = 0) => StoppedFor(c)

\* a later run was reported as stopped by the user for a stop that found an
\* earlier run in the slot; a stopped run reported as such
LaterRunReportedStopped == \E c \in ChatIds : StaleStopReported(c)
StoppedRunReportedStopped == \E c \in ChatIds : ReportedStoppedByUser(c) /\ StoppedFor(c)

====
